---- MODULE Spec2Model ----
(***************************************************************************)
(* Model of schizoid's core: the character tokenizer and n-gram model      *)
(* (src/model.go) and the per-channel trained-span bookkeeping of Brain    *)
(* (src/brain.go).                                                         *)
(*                                                                         *)
(* Texts are sequences of runes (one-character strings).  An n-gram key is *)
(* the decoded text of a token sequence, again a sequence of runes.        *)
(* Times are small naturals; a snowflake id is a natural that is unique    *)
(* per message.  A *TrainedSpan is an index into heap (0 is nil).          *)
(***************************************************************************)
EXTENDS Integers, Sequences, FiniteSets, Bags, TLC

\* ------------------------------------------------------------------ bounds

\* message timestamps are 1..MaxTime
MaxTime == 3
\* number of calls one behaviour makes when each runs to completion
MaxCalls == 3
\* number of calls one behaviour starts when their steps interleave
MaxOps == 3
\* generate's argument length is 0..MaxLength
MaxLength == 2
\* number of messages the gateway delivers while backfill calls are made
MaxLive == 2

\* ------------------------------------------------------- program constants

\* NewBrain: NewNgramModel(NewCharTokenizer([]string{}), 5, 0)
BrainN == 5
BrainSmoothing == 0

\* the default special token "<|endoftext|>", as the runes Decode writes
EndOfText == <<"<", "|", "e", "n", "d", "o", "f", "t", "e", "x", "t", "|", ">">>

\* the rune Decode writes for a token outside the vocabulary (U+FFFD)
Unknown == "U+FFFD"

\* the nil *TrainedSpan
Nil == 0

\* ------------------------------------------------------------------ inputs

Channels == {1, 2}

\* texts: empty, single-byte runes sharing n-grams, and texts with a rune
\* that takes two bytes in UTF-8
TextList == << <<>>, <<"a">>, <<"a", "b">>, <<"é", "a">>, <<"a", "é">> >>

Texts == {TextList[i] : i \in 1..Len(TextList)}

\* who wrote what in a channel: the first three texts by users, and one
\* message by a bot
KindList ==
    << [Content |-> TextList[1], Bot |-> FALSE],
       [Content |-> TextList[2], Bot |-> FALSE],
       [Content |-> TextList[3], Bot |-> FALSE],
       [Content |-> TextList[2], Bot |-> TRUE] >>

\* a snowflake id: unique per message, ordered by creation time first
MsgID(c, t, k) == (t * 10 + c) * 10 + k

\* discord.Message, the fields Brain reads
Message(c, t, k) ==
    [ID |-> MsgID(c, t, k), ChannelID |-> c, CreatedAt |-> t,
     Content |-> KindList[k].Content, Bot |-> KindList[k].Bot]

\* the messages of the guild: every kind at every time in channel 1, and one
\* user's message at every time in channel 2
Messages ==
    { Message(1, t, k) : t \in 1..MaxTime, k \in 1..Len(KindList) }
    \cup { Message(2, t, 2) : t \in 1..MaxTime }

\* --------------------------------------------------------------- tokenizer

\* utf8.RuneLen: the bytes a rune takes in string(c.vocab)
RuneLen(r) == IF r = "é" THEN 2 ELSE 1

RECURSIVE ByteLen(_)
\* len(string(runes))
ByteLen(s) == IF s = <<>> THEN 0 ELSE RuneLen(Head(s)) + ByteLen(Tail(s))

\* strings.IndexRune(string(vocab), r): the BYTE index of the first r, or -1
IndexRune(vocab, r) ==
    IF \E i \in 1..Len(vocab) : vocab[i] = r
    THEN LET i == CHOOSE i \in 1..Len(vocab) :
                      vocab[i] = r /\ \A j \in 1..(i - 1) : vocab[j] # r
         IN ByteLen(SubSeq(vocab, 1, i - 1))
    ELSE -1

\* NewCharTokenizer([]string{})
NewCharTokenizer == [vocab |-> <<>>, special_tokens |-> <<EndOfText>>]

\* CharTokenizer.VocabSize
VocabSize(c) == Len(c.special_tokens) + Len(c.vocab)

\* the body of Encode's loop for one rune
EncodeRune(c, r) ==
    LET tok == IndexRune(c.vocab, r)
    IN IF tok >= 0 THEN tok + Len(c.special_tokens) ELSE tok

\* CharTokenizer.Encode
Encode(c, text) == [i \in 1..Len(text) |-> EncodeRune(c, text[i])]

\* the body of Decode's loop for one token: the runes it writes
DecodeToken(c, tok) ==
    IF tok < 0 \/ tok >= VocabSize(c)
    THEN <<Unknown>>
    ELSE IF Len(c.special_tokens) <= tok
         THEN <<c.vocab[tok - Len(c.special_tokens) + 1]>>
         ELSE c.special_tokens[tok + 1]

RECURSIVE Decode(_, _)
\* CharTokenizer.Decode
Decode(c, tokens) ==
    IF tokens = <<>> THEN <<>>
    ELSE DecodeToken(c, Head(tokens)) \o Decode(c, Tail(tokens))

RECURSIVE ObserveRunesAppendAll(_, _)
\* Observe's loop without the ContainsRune test
ObserveRunesAppendAll(vocab, text) ==
    IF text = <<>> THEN vocab
    ELSE ObserveRunesAppendAll(Append(vocab, Head(text)), Tail(text))

RECURSIVE ObserveRunes(_, _)
\* CharTokenizer.Observe's loop: append each rune not yet in the vocabulary
ObserveRunes(vocab, text) ==
    IF text = <<>> THEN vocab
    ELSE ObserveRunes(
             IF \E i \in 1..Len(vocab) : vocab[i] = Head(text)
             THEN vocab ELSE Append(vocab, Head(text)),
             Tail(text))

\* CharTokenizer.Observe
Observe(c, text) == [c EXCEPT !.vocab = ObserveRunes(c.vocab, text)]

\* -------------------------------------------------------------- NgramModel

\* NewNgramModel
NewNgramModel(tokenizer, n, smoothing) ==
    [Counts |-> <<>>, tokenizer |-> tokenizer, N |-> n, Smoothing |-> smoothing]

\* ngrams whose loop stops one window early
ngramsDropLast(tokens, n) ==
    IF n > Len(tokens) \/ n <= 0 THEN <<>>
    ELSE [i \in 1..(Len(tokens) - n) |-> SubSeq(tokens, i, i + n - 1)]

\* ngrams(tokens, n)
ngrams(tokens, n) ==
    IF n > Len(tokens) \/ n <= 0 THEN <<>>
    ELSE [i \in 1..(Len(tokens) - n + 1) |-> SubSeq(tokens, i, i + n - 1)]

RECURSIVE NgramKeys(_, _, _, _)
\* the keys train and forget visit, in order: for n := range N+1, for each
\* ngram of ngrams(tokens, n), Decode(ngram)
NgramKeys(c, tokens, n, nMax) ==
    IF n > nMax THEN <<>>
    ELSE LET g == ngrams(tokens, n)
         IN [i \in 1..Len(g) |-> Decode(c, g[i])] \o NgramKeys(c, tokens, n + 1, nMax)

\* m.Counts[key], 0 for an absent key
CountAt(counts, key) == IF key \in DOMAIN counts THEN counts[key] ELSE 0

\* m.Counts[key]++ (uint64; the wrap at 2^64 needs 2^64 trainings)
IncKey(counts, key) ==
    IF key \in DOMAIN counts
    THEN [counts EXCEPT ![key] = @ + 1]
    ELSE [k \in DOMAIN counts \cup {key} |-> IF k = key THEN 1 ELSE counts[k]]

\* forget without the count > 0 guard: the uint64 leaves 0 downwards
DecKeyUnguarded(counts, key) ==
    IF key \in DOMAIN counts THEN [counts EXCEPT ![key] = @ - 1] ELSE counts

\* forget's loop body: if count, exists := m.Counts[key]; exists { if count > 0 { m.Counts[key]-- } }
DecKey(counts, key) ==
    IF key \in DOMAIN counts
    THEN IF counts[key] > 0 THEN [counts EXCEPT ![key] = @ - 1] ELSE counts
    ELSE counts

RECURSIVE IncAll(_, _)
IncAll(counts, keys) ==
    IF keys = <<>> THEN counts ELSE IncAll(IncKey(counts, Head(keys)), Tail(keys))

RECURSIVE DecAll(_, _)
DecAll(counts, keys) ==
    IF keys = <<>> THEN counts ELSE DecAll(DecKey(counts, Head(keys)), Tail(keys))

\* NgramModel.train
train(m, sample) ==
    IF Len(sample) = 0 THEN m
    ELSE LET c == Observe(m.tokenizer, sample)
             tokens == Append(Encode(c, sample), 0)
         IN [m EXCEPT !.tokenizer = c,
                      !.Counts = IncAll(m.Counts, NgramKeys(c, tokens, 0, m.N))]

\* forget that leaves out the end-of-text token
forgetNoEnd(m, text) ==
    IF Len(text) = 0 THEN m
    ELSE LET tokens == Encode(m.tokenizer, text)
         IN [m EXCEPT !.Counts = DecAll(m.Counts, NgramKeys(m.tokenizer, tokens, 0, m.N))]

\* NgramModel.forget
forget(m, text) ==
    IF Len(text) = 0 THEN m
    ELSE LET tokens == Append(Encode(m.tokenizer, text), 0)
         IN [m EXCEPT !.Counts = DecAll(m.Counts, NgramKeys(m.tokenizer, tokens, 0, m.N))]

RECURSIVE countOfNoMin(_, _, _)
\* countOf whose loop goes on below nMin symbols
countOfNoMin(m, ctx, nMin) ==
    IF Len(ctx) = 0 THEN 0
    ELSE LET count == CountAt(m.Counts, Decode(m.tokenizer, ctx))
         IN IF count = 0
            THEN countOfNoMin(m, Tail(ctx), nMin)
            ELSE count

RECURSIVE countOf(_, _, _)
\* NgramModel.countOf: the count of ctx, backing off to shorter suffixes
\* while the count is 0 and ctx is longer than nMin
countOf(m, ctx, nMin) ==
    IF Len(ctx) = 0 THEN 0
    ELSE LET count == CountAt(m.Counts, Decode(m.tokenizer, ctx))
         IN IF count = 0 /\ Len(ctx) > nMin
            THEN countOf(m, Tail(ctx), nMin)
            ELSE count

\* NgramModel.probs.  A probability count/total is kept as the fraction
\* [num, den]; Smoothing, a float64 in the code, is a natural number here.
\* context[len(context)-m.N+1:] panics when the low bound is out of range.
probs(m, text) ==
    LET vocabSize == VocabSize(m.tokenizer)
        encoded == Encode(m.tokenizer, text)
        low == Len(encoded) - m.N + 1
    IN IF low < 0 \/ low > Len(encoded)
       THEN [panicked |-> TRUE, probs |-> <<>>]
       ELSE LET context == SubSeq(encoded, low + 1, Len(encoded))
                total == countOf(m, context, m.N) + vocabSize * m.Smoothing
            IN [panicked |-> FALSE,
                probs |-> [i \in 1..vocabSize |->
                    IF total > 0
                    THEN [num |-> countOf(m, Append(context, i - 1), m.N) + m.Smoothing,
                          den |-> total]
                    ELSE [num |-> 0, den |-> 1]]]

RECURSIVE SumNum(_)
\* sample's total, times the common denominator
SumNum(ps) == IF ps = <<>> THEN 0 ELSE Head(ps).num + SumNum(Tail(ps))

\* sample that returns any index
sampleAny(ps) == IF Len(ps) = 0 THEN {0} ELSE {i - 1 : i \in 1..Len(ps)}

\* sample: the values the call can return over all draws of rand.Float64().
\* r starts in [0, total) and stays >= 0, so r < prob needs prob > 0; the
\* final return 0 is reached when total is 0 and when the rounding of
\* r -= prob leaves r at or above the last positive prob.
sample(ps) ==
    IF Len(ps) = 0 THEN {0}
    ELSE IF SumNum(ps) = 0 THEN {0}
    ELSE {i - 1 : i \in {j \in 1..Len(ps) : ps[j].num > 0}} \cup {0}

RECURSIVE generateLoop(_, _, _, _)
\* generate's loop "for range length": the ways it can end, each with the
\* ids sampled on the way
generateLoop(m, out, left, samples) ==
    IF left <= 0
    THEN {[text |-> out, samples |-> samples, panicked |-> FALSE]}
    ELSE LET p == probs(m, out)
         IN IF p.panicked
            THEN {[text |-> out, samples |-> samples, panicked |-> TRUE]}
            ELSE UNION {
                   IF sampled = 0
                   THEN {[text |-> out, samples |-> Append(samples, 0),
                          panicked |-> FALSE]}
                   ELSE generateLoop(m, out \o DecodeToken(m.tokenizer, sampled),
                                     left - 1, Append(samples, sampled))
                   : sampled \in sample(p.probs) }

\* NgramModel.generate: len(seed) is the seed's length in bytes
generate(m, seed, length) ==
    IF ByteLen(seed) < m.N - 1
    THEN {[text |-> <<>>, samples |-> <<>>, panicked |-> FALSE]}
    ELSE generateLoop(m, seed, length, <<>>)

\* ------------------------------------------------------------- TrainedSpan

\* DuringSpan with both endpoints excluded
DuringSpanOpen(ts, t) == t > ts.Start /\ t < ts.End

\* TrainedSpan.DuringSpan
DuringSpan(ts, t) ==
    (t > ts.Start /\ t < ts.End) \/ t = ts.Start \/ t = ts.End

\* ExtendSpan's first if: t.After(ts.End)
ExtendEnd(ts, msg) ==
    IF msg.CreatedAt > ts.End
    THEN [ts EXCEPT !.End = msg.CreatedAt, !.EndID = msg.ID]
    ELSE ts

\* ExtendSpan's second if: t.Before(ts.Start)
ExtendStart(ts, msg) ==
    IF msg.CreatedAt < ts.Start
    THEN [ts EXCEPT !.Start = msg.CreatedAt, !.StartID = msg.ID]
    ELSE ts

\* ExtendSpan that moves the boundary to the message unconditionally
ExtendSpanAlways(ts, msg) ==
    [ts EXCEPT !.End = msg.CreatedAt, !.EndID = msg.ID]

\* TrainedSpan.ExtendSpan
ExtendSpan(ts, msg) == ExtendStart(ExtendEnd(ts, msg), msg)

\* Union that merges the start and leaves the end alone
UnionStartOnly(ts, other) ==
    IF other.Start < ts.Start
    THEN [ts EXCEPT !.Start = other.Start, !.StartID = other.StartID]
    ELSE ts

\* TrainedSpan.Union
Union(ts, other) ==
    LET a == IF other.Start < ts.Start
             THEN [ts EXCEPT !.Start = other.Start, !.StartID = other.StartID]
             ELSE ts
    IN IF other.End > a.End
       THEN [a EXCEPT !.End = other.End, !.EndID = other.EndID]
       ELSE a

\* makeSpan
makeSpan(msg) ==
    [Start |-> msg.CreatedAt, End |-> msg.CreatedAt,
     StartID |-> msg.ID, EndID |-> msg.ID]

\* ------------------------------------------------- Brain, one call at a time

\* NewBrain: the fields of Brain as a record; heap holds the TrainedSpan
\* objects the map's pointers refer to
NewBrain ==
    [Model |-> NewNgramModel(NewCharTokenizer, BrainN, BrainSmoothing),
     TrainedSpans |-> [c \in Channels |-> Nil],
     heap |-> <<>>]

\* Brain.getTrainedSpan
getTrainedSpan(b, channelID) == b.TrainedSpans[channelID]

\* Brain.setTrainedSpan
setTrainedSpan(b, channelID, span) == [b EXCEPT !.TrainedSpans[channelID] = span]

\* Brain.shouldObserve
shouldObserve(obs) ==
    IF obs.Bot THEN FALSE
    ELSE IF Len(obs.Content) = 0 THEN FALSE
    ELSE TRUE

\* observe without the early return on DuringSpan
observeAlways(b, obs) ==
    LET span == getTrainedSpan(b, obs.ChannelID)
        b1 == IF shouldObserve(obs)
              THEN [b EXCEPT !.Model = train(@, obs.Content)]
              ELSE b
    IN IF span = Nil
       THEN setTrainedSpan([b1 EXCEPT !.heap = Append(@, makeSpan(obs))],
                           obs.ChannelID, Len(b1.heap) + 1)
       ELSE setTrainedSpan([b1 EXCEPT !.heap[span] = ExtendSpan(@, obs)],
                           obs.ChannelID, span)

\* observe that returns when shouldObserve fails, before the span is touched
observeQualifyingOnly(b, obs) ==
    LET ts == getTrainedSpan(b, obs.ChannelID)
    IN IF ts # Nil /\ DuringSpan(b.heap[ts], obs.CreatedAt)
       THEN b
       ELSE IF ~shouldObserve(obs) THEN b
       ELSE LET b1 == [b EXCEPT !.Model = train(@, obs.Content)]
            IN IF ts = Nil
               THEN setTrainedSpan([b1 EXCEPT !.heap = Append(@, makeSpan(obs))],
                                   obs.ChannelID, Len(b1.heap) + 1)
               ELSE setTrainedSpan([b1 EXCEPT !.heap[ts] = ExtendSpan(@, obs)],
                                   obs.ChannelID, ts)

\* Brain.observe, run without interleaving
observe(b, obs) ==
    LET span == getTrainedSpan(b, obs.ChannelID)
    IN IF span # Nil /\ DuringSpan(b.heap[span], obs.CreatedAt)
       THEN b
       ELSE LET b1 == IF shouldObserve(obs)
                      THEN [b EXCEPT !.Model = train(@, obs.Content)]
                      ELSE b
            IN IF span = Nil
               THEN setTrainedSpan([b1 EXCEPT !.heap = Append(@, makeSpan(obs))],
                                   obs.ChannelID, Len(b1.heap) + 1)
               ELSE setTrainedSpan([b1 EXCEPT !.heap[span] = ExtendSpan(@, obs)],
                                   obs.ChannelID, span)

\* forget's early returns without the DuringSpan test
forgetReachesAnyTime(b, obs) ==
    IF Len(obs.Content) = 0 THEN FALSE
    ELSE IF ~shouldObserve(obs) THEN FALSE
    ELSE getTrainedSpan(b, obs.ChannelID) # Nil

\* Brain.forget's four early returns: TRUE when none is taken
forgetReaches(b, obs) ==
    IF Len(obs.Content) = 0 THEN FALSE
    ELSE IF ~shouldObserve(obs) THEN FALSE
    ELSE LET span == getTrainedSpan(b, obs.ChannelID)
         IN IF span = Nil THEN FALSE
            ELSE IF ~DuringSpan(b.heap[span], obs.CreatedAt) THEN FALSE
            ELSE TRUE

\* forget that also drops the channel's map entry
brainForgetDropsSpan(b, obs) ==
    IF forgetReaches(b, obs)
    THEN [b EXCEPT !.Model = forget(@, obs.Content),
                   !.TrainedSpans[obs.ChannelID] = Nil]
    ELSE b

\* Brain.forget, run without interleaving
brainForget(b, obs) ==
    IF forgetReaches(b, obs)
    THEN [b EXCEPT !.Model = forget(@, obs.Content)]
    ELSE b

\* ------------------------------------------------------------------- state

\* goroutines calling into one Brain: the gateway's event callbacks and the
\* backfill goroutines
Tasks == {1, 2}

VARIABLES
    Model,          \* Brain.Model: [Counts, tokenizer, N, Smoothing]
    TrainedSpans,   \* Brain.TrainedSpans: channel -> *TrainedSpan (Nil: no entry)
    heap,           \* the TrainedSpan objects, by address
    mu,             \* Brain.mu: the task holding it exclusively, or 0
    pc,             \* per task: where it is in observe / forget
    obs,            \* per task: the message argument of its call
    span,           \* per task: its local variable span
    gen,            \* per task: generate's arguments and its local variable out
    ret,            \* what the last generate call that ended gave back, and
                    \* which call it was
    calls,          \* history: number of calls started
    delivered,      \* history: bag of messages passed to observe, one per
                    \* call (the pages of observeSomeMessages are not added)
    trained,        \* history: bag of messages (texts) passed to Model.train
    forgotten,      \* history: bag of messages (texts) passed to Model.forget
    fetched,        \* history, per channel: the last observeSomeMessages
                    \* call: whether it asked the transport for a page, and
                    \* whether the request failed
    file,           \* models/<guild>.brain: <<>> while absent, else <<what
                    \* Save wrote>>
    saved,          \* history: the Brain as it was when Save last wrote it
    guilds,         \* the global map guilds: guild -> *Brain (Nil: no entry)
    brains,         \* the Brain objects LoadBrain returned to
                    \* retrieve_guild_brain, by address, each with its guild
    loops,          \* the observeChannels goroutines started: the guild and
                    \* the local variable brain (Nil before it is assigned)
    handler         \* per task: the event handler it runs and its local
                    \* variable schizo

vars == <<Model, TrainedSpans, heap, mu, pc, obs, span, gen, ret,
          calls, delivered, trained, forgotten, fetched, file, saved,
          guilds, brains, loops, handler>>

brainVars == <<Model, TrainedSpans, heap>>
taskVars == <<mu, pc, obs, span, gen, ret>>
guildVars == <<guilds, brains, loops, handler>>
ioVars == <<fetched, file, saved, guildVars>>

\* the Brain as one value, for the operators above
TheBrain == [Model |-> Model, TrainedSpans |-> TrainedSpans, heap |-> heap]

\* a message of Messages that stands for "no argument"
NoMsg == [ID |-> 0, ChannelID |-> 0, CreatedAt |-> 0, Content |-> <<>>, Bot |-> FALSE]

\* a task that is not inside generate
NoGen == [seed |-> <<>>, length |-> 0, out |-> <<>>, left |-> 0, samples |-> <<>>,
          panicked |-> FALSE, call |-> 0]

\* no generate call has ended yet
NoRet == [seed |-> <<>>, length |-> 0, text |-> <<>>, samples |-> <<>>,
          panicked |-> FALSE, call |-> 0]

Add(bag, m) == bag (+) SetToBag({m})

\* observeSomeMessages was not called for the channel
NoFetch == [called |-> FALSE, requested |-> FALSE, err |-> FALSE]

\* Save has not written the file
NoSave == [set |-> FALSE, calls |-> 0, b |-> NewBrain]

\* the guilds the bot is in; channel c of Channels is in guild c
Guilds == {1, 2}

\* a task that is not inside an event handler
NoHandler == [kind |-> "none", schizo |-> Nil]

\* retrieve_guild_brain on first reference: LoadBrain finds no file, NewBrain
Init ==
    /\ Model = NewBrain.Model
    /\ TrainedSpans = NewBrain.TrainedSpans
    /\ heap = NewBrain.heap
    /\ mu = 0
    /\ pc = [t \in Tasks |-> "idle"]
    /\ obs = [t \in Tasks |-> NoMsg]
    /\ span = [t \in Tasks |-> Nil]
    /\ gen = [t \in Tasks |-> NoGen]
    /\ ret = NoRet
    /\ calls = 0
    /\ delivered = EmptyBag
    /\ trained = EmptyBag
    /\ forgotten = EmptyBag
    /\ fetched = [c \in Channels |-> NoFetch]
    /\ file = <<>>
    /\ saved = NoSave
    /\ guilds = [g \in Guilds |-> Nil]
    /\ brains = <<>>
    /\ loops = <<>>
    /\ handler = [t \in Tasks |-> NoHandler]

\* ------------------------------------------- calls that run to completion

\* onMessageCreate / observeSomeMessages: b.observe(m), not interleaved
SeqObserve(m) ==
    /\ calls < MaxCalls
    /\ LET b == observe(TheBrain, m)
       IN /\ Model' = b.Model
          /\ TrainedSpans' = b.TrainedSpans
          /\ heap' = b.heap
          /\ trained' = IF b.Model.Counts # Model.Counts THEN Add(trained, m) ELSE trained
    /\ calls' = calls + 1
    /\ delivered' = Add(delivered, m)
    /\ UNCHANGED <<ioVars, taskVars, forgotten>>

\* onMessageDelete: b.forget(m), not interleaved
SeqForget(m) ==
    /\ calls < MaxCalls
    /\ LET b == brainForget(TheBrain, m)
       IN /\ Model' = b.Model
          /\ TrainedSpans' = b.TrainedSpans
          /\ heap' = b.heap
    /\ forgotten' = IF forgetReaches(TheBrain, m) THEN Add(forgotten, m) ELSE forgotten
    /\ calls' = calls + 1
    /\ UNCHANGED <<ioVars, taskVars, delivered, trained>>

NextSeq ==
    \/ \E m \in Messages : SeqObserve(m)
    \/ \E m \in Messages : SeqForget(m)

\* one caller: every call returns before the next starts
SpecSeq == Init /\ [][NextSeq]_vars

\* ------------------------------------------------- calls into the model alone

\* m.train(text) on the Brain's model; a panic in an earlier call has ended
\* the process
ModelTrain(text) ==
    /\ calls < MaxCalls
    /\ ~ret.panicked
    /\ Model' = train(Model, text)
    /\ trained' = Add(trained, text)
    /\ calls' = calls + 1
    /\ UNCHANGED <<ioVars, TrainedSpans, heap, taskVars, delivered, forgotten>>

\* m.forget(text) on the Brain's model
ModelForget(text) ==
    /\ calls < MaxCalls
    /\ ~ret.panicked
    /\ Model' = forget(Model, text)
    /\ forgotten' = Add(forgotten, text)
    /\ calls' = calls + 1
    /\ UNCHANGED <<ioVars, TrainedSpans, heap, taskVars, delivered, trained>>

NextModel ==
    \/ \E text \in Texts : ModelTrain(text)
    \/ \E text \in Texts : ModelForget(text)

\* any sequence of train and forget calls on one model
SpecModel == Init /\ [][NextModel]_vars

\* ------------------------------------------------------ one span on its own

\* makeSpan(msg): the first object of the heap
SpanMake(msg) ==
    /\ heap = <<>>
    /\ heap' = <<makeSpan(msg)>>
    /\ UNCHANGED <<ioVars, Model, TrainedSpans, taskVars, calls, delivered, trained, forgotten>>

\* ts.ExtendSpan(msg) on that object
SpanExtend(msg) ==
    /\ heap # <<>>
    /\ calls < MaxCalls
    /\ heap' = [heap EXCEPT ![1] = ExtendSpan(@, msg)]
    /\ calls' = calls + 1
    /\ UNCHANGED <<ioVars, Model, TrainedSpans, taskVars, delivered, trained, forgotten>>

NextSpan ==
    \/ \E msg \in Messages : SpanMake(msg)
    \/ \E msg \in Messages : SpanExtend(msg)

\* a span made from one message, then any sequence of ExtendSpan calls
SpecSpan == Init /\ [][NextSpan]_vars

\* ------------------------------------ the model and its tokenizer on their own

\* NewNgramModel's parameters n and smoothing
ModelNs == {2, 3}
Smoothings == {0, 1}

\* seeds: one byte, one rune of two bytes, and two bytes in two runes
GenSeeds == {<<"a">>, <<"é">>, <<"a", "b">>}

\* the texts observed, trained and forgotten around generate calls
GenTexts == {<<"a", "b">>, <<"é", "a">>}

\* a model made by NewNgramModel(NewCharTokenizer([]string{}), n, smoothing)
InitGen ==
    /\ \E n \in ModelNs, s \in Smoothings :
           Model = NewNgramModel(NewCharTokenizer, n, s)
    /\ TrainedSpans = NewBrain.TrainedSpans
    /\ heap = NewBrain.heap
    /\ mu = 0
    /\ pc = [t \in Tasks |-> "idle"]
    /\ obs = [t \in Tasks |-> NoMsg]
    /\ span = [t \in Tasks |-> Nil]
    /\ gen = [t \in Tasks |-> NoGen]
    /\ ret = NoRet
    /\ calls = 0
    /\ delivered = EmptyBag
    /\ trained = EmptyBag
    /\ forgotten = EmptyBag
    /\ fetched = [c \in Channels |-> NoFetch]
    /\ file = <<>>
    /\ saved = NoSave
    /\ guilds = [g \in Guilds |-> Nil]
    /\ brains = <<>>
    /\ loops = <<>>
    /\ handler = [t \in Tasks |-> NoHandler]

\* m.tokenizer.Observe(text)
ModelObserve(text) ==
    /\ calls < MaxCalls
    /\ ~ret.panicked
    /\ Model' = [Model EXCEPT !.tokenizer = Observe(@, text)]
    /\ calls' = calls + 1
    /\ UNCHANGED <<ioVars, TrainedSpans, heap, taskVars, delivered, trained, forgotten>>

\* m.generate(seed, length), with every outcome of the random draws
ModelGenerate(seed, length) ==
    /\ calls < MaxCalls
    /\ ~ret.panicked
    /\ \E r \in generate(Model, seed, length) :
           ret' = [seed |-> seed, length |-> length, text |-> r.text,
                   samples |-> r.samples, panicked |-> r.panicked,
                   call |-> calls + 1]
    /\ calls' = calls + 1
    /\ UNCHANGED <<ioVars, brainVars, mu, pc, obs, span, gen, delivered, trained, forgotten>>

NextTok ==
    \/ \E text \in Texts : ModelObserve(text)
    \/ \E text \in Texts : ModelTrain(text)
    \/ \E text \in Texts : ModelForget(text)

\* any sequence of Observe, train and forget calls on one model
SpecTok == InitGen /\ [][NextTok]_vars

NextGen ==
    \/ \E text \in GenTexts : ModelObserve(text)
    \/ \E text \in GenTexts : ModelTrain(text)
    \/ \E text \in GenTexts : ModelForget(text)
    \/ \E seed \in GenSeeds, length \in 0..MaxLength : ModelGenerate(seed, length)

\* any sequence of Observe, train, forget and generate calls on one model
SpecGen == InitGen /\ [][NextGen]_vars

\* ------------------------------------------------ interleaved calls, by step

Return(t) ==
    /\ pc' = [pc EXCEPT ![t] = "idle"]
    /\ obs' = [obs EXCEPT ![t] = NoMsg]
    /\ span' = [span EXCEPT ![t] = Nil]

Goto(t, label) == pc' = [pc EXCEPT ![t] = label]

\* a task enters b.observe(m)
CallObserve(t, m) ==
    /\ pc[t] = "idle"
    /\ calls < MaxOps
    /\ calls' = calls + 1
    /\ obs' = [obs EXCEPT ![t] = m]
    /\ Goto(t, "o_get")
    /\ delivered' = Add(delivered, m)
    /\ UNCHANGED <<ioVars, brainVars, mu, span, trained, forgotten, gen, ret>>

\* var span = b.getTrainedSpan(obs.ChannelID): RLock, read the map, RUnlock
ObsGet(t) ==
    /\ pc[t] = "o_get"
    /\ mu = 0
    /\ span' = [span EXCEPT ![t] = TrainedSpans[obs[t].ChannelID]]
    /\ Goto(t, "o_during")
    /\ UNCHANGED <<ioVars, brainVars, mu, obs, calls, trained, delivered, forgotten, gen, ret>>

\* if span != nil { if span.DuringSpan(obs.CreatedAt) { return } }, then
\* shouldObserve; the span's fields are read without the lock
ObsDuring(t) ==
    /\ pc[t] = "o_during"
    /\ IF span[t] # Nil /\ DuringSpan(heap[span[t]], obs[t].CreatedAt)
       THEN Return(t)
       ELSE /\ Goto(t, IF shouldObserve(obs[t]) THEN "o_lock" ELSE "o_span")
            /\ UNCHANGED <<obs, span>>
    /\ UNCHANGED <<ioVars, brainVars, mu, calls, trained, delivered, forgotten, gen, ret>>

\* b.mu.Lock() before train
ObsLock(t) ==
    /\ pc[t] = "o_lock"
    /\ mu = 0
    /\ mu' = t
    /\ Goto(t, "o_train")
    /\ UNCHANGED <<ioVars, brainVars, obs, span, calls, trained, delivered, forgotten, gen, ret>>

\* b.Model.train(obs.Content); b.mu.Unlock()
ObsTrain(t) ==
    /\ pc[t] = "o_train"
    /\ Model' = train(Model, obs[t].Content)
    /\ trained' = Add(trained, obs[t])
    /\ mu' = 0
    /\ Goto(t, "o_span")
    /\ UNCHANGED <<ioVars, TrainedSpans, heap, obs, span, calls, delivered, forgotten, gen, ret>>

\* span == nil: b.setTrainedSpan(obs.ChannelID, makeSpan(obs)), under Lock
ObsMake(t) ==
    /\ pc[t] = "o_span"
    /\ span[t] = Nil
    /\ mu = 0
    /\ heap' = Append(heap, makeSpan(obs[t]))
    /\ TrainedSpans' = [TrainedSpans EXCEPT ![obs[t].ChannelID] = Len(heap) + 1]
    /\ Return(t)
    /\ UNCHANGED <<ioVars, Model, mu, calls, trained, delivered, forgotten, gen, ret>>

\* span.ExtendSpan(obs): the test t.After(ts.End), without the lock
ObsExtendEndTest(t) ==
    /\ pc[t] = "o_span"
    /\ span[t] # Nil
    /\ Goto(t, IF obs[t].CreatedAt > heap[span[t]].End THEN "o_end" ELSE "o_start")
    /\ UNCHANGED <<ioVars, brainVars, mu, obs, span, calls, trained, delivered, forgotten, gen, ret>>

\* ts.End = t; ts.EndID = msg.ID, both assignments as one step
ObsExtendEnd(t) ==
    /\ pc[t] = "o_end"
    /\ heap' = [heap EXCEPT ![span[t]] =
                   [@ EXCEPT !.End = obs[t].CreatedAt, !.EndID = obs[t].ID]]
    /\ Goto(t, "o_start")
    /\ UNCHANGED <<ioVars, Model, TrainedSpans, mu, obs, span, calls, trained, delivered, forgotten, gen, ret>>

\* the test t.Before(ts.Start), without the lock
ObsExtendStartTest(t) ==
    /\ pc[t] = "o_start"
    /\ Goto(t, IF obs[t].CreatedAt < heap[span[t]].Start THEN "o_startw" ELSE "o_set")
    /\ UNCHANGED <<ioVars, brainVars, mu, obs, span, calls, trained, delivered, forgotten, gen, ret>>

\* ts.Start = t; ts.StartID = msg.ID, both assignments as one step
ObsExtendStart(t) ==
    /\ pc[t] = "o_startw"
    /\ heap' = [heap EXCEPT ![span[t]] =
                   [@ EXCEPT !.Start = obs[t].CreatedAt, !.StartID = obs[t].ID]]
    /\ Goto(t, "o_set")
    /\ UNCHANGED <<ioVars, Model, TrainedSpans, mu, obs, span, calls, trained, delivered, forgotten, gen, ret>>

\* b.setTrainedSpan(obs.ChannelID, span): Lock, write the map, Unlock
ObsSet(t) ==
    /\ pc[t] = "o_set"
    /\ mu = 0
    /\ TrainedSpans' = [TrainedSpans EXCEPT ![obs[t].ChannelID] = span[t]]
    /\ Return(t)
    /\ UNCHANGED <<ioVars, Model, heap, mu, calls, trained, delivered, forgotten, gen, ret>>

\* a task enters b.forget(m): the two tests on the message alone
CallForget(t, m) ==
    /\ pc[t] = "idle"
    /\ calls < MaxOps
    /\ calls' = calls + 1
    /\ IF Len(m.Content) = 0 \/ ~shouldObserve(m)
       THEN UNCHANGED <<pc, obs>>
       ELSE /\ obs' = [obs EXCEPT ![t] = m]
            /\ Goto(t, "f_get")
    /\ UNCHANGED <<ioVars, brainVars, mu, span, trained, delivered, forgotten, gen, ret>>

\* span := b.getTrainedSpan(obs.ChannelID); if span == nil { return }
FgtGet(t) ==
    /\ pc[t] = "f_get"
    /\ mu = 0
    /\ IF TrainedSpans[obs[t].ChannelID] = Nil
       THEN Return(t)
       ELSE /\ span' = [span EXCEPT ![t] = TrainedSpans[obs[t].ChannelID]]
            /\ Goto(t, "f_during")
            /\ UNCHANGED obs
    /\ UNCHANGED <<ioVars, brainVars, mu, calls, trained, delivered, forgotten, gen, ret>>

\* if !span.DuringSpan(obs.CreatedAt) { return }, read without the lock
FgtDuring(t) ==
    /\ pc[t] = "f_during"
    /\ IF ~DuringSpan(heap[span[t]], obs[t].CreatedAt)
       THEN Return(t)
       ELSE /\ Goto(t, "f_lock")
            /\ UNCHANGED <<obs, span>>
    /\ UNCHANGED <<ioVars, brainVars, mu, calls, trained, delivered, forgotten, gen, ret>>

\* b.mu.Lock() before forget
FgtLock(t) ==
    /\ pc[t] = "f_lock"
    /\ mu = 0
    /\ mu' = t
    /\ Goto(t, "f_forget")
    /\ UNCHANGED <<ioVars, brainVars, obs, span, calls, trained, delivered, forgotten, gen, ret>>

\* b.Model.forget(obs.Content); the deferred b.mu.Unlock()
FgtForget(t) ==
    /\ pc[t] = "f_forget"
    /\ Model' = forget(Model, obs[t].Content)
    /\ forgotten' = Add(forgotten, obs[t])
    /\ mu' = 0
    /\ Return(t)
    /\ UNCHANGED <<ioVars, TrainedSpans, heap, calls, trained, delivered, gen, ret>>

Next ==
    \E t \in Tasks :
        \/ \E m \in Messages : CallObserve(t, m)
        \/ ObsGet(t)
        \/ ObsDuring(t)
        \/ ObsLock(t)
        \/ ObsTrain(t)
        \/ ObsMake(t)
        \/ ObsExtendEndTest(t)
        \/ ObsExtendEnd(t)
        \/ ObsExtendStartTest(t)
        \/ ObsExtendStart(t)
        \/ ObsSet(t)
        \/ \E m \in Messages : CallForget(t, m)
        \/ FgtGet(t)
        \/ FgtDuring(t)
        \/ FgtLock(t)
        \/ FgtForget(t)

\* the gateway's callbacks and the backfill goroutines, interleaved
Spec == Init /\ [][Next]_vars

\* ------------------------------------------- generate among interleaved calls

\* a message long enough to give the Brain's model (N = 5) a context that
\* continues: after train("aaaaa") the context aaaa is followed by a and by
\* end-of-text
LongText == <<"a", "a", "a", "a", "a">>

\* two such messages in channel 1, one after the other
LongMessages ==
    { [ID |-> MsgID(1, t, 5), ChannelID |-> 1, CreatedAt |-> t,
       Content |-> LongText, Bot |-> FALSE] : t \in {1, 2} }

\* the content of a mention: N-1 characters
LongSeeds == {<<"a", "a", "a", "a">>}

\* a task enters b.generate(seed, length) (onMessageCreate, bot mentioned)
CallGenerate(t, seed, length) ==
    /\ pc[t] = "idle"
    /\ calls < MaxOps
    /\ calls' = calls + 1
    /\ gen' = [gen EXCEPT ![t] = [seed |-> seed, length |-> length, out |-> <<>>,
                                  left |-> length, samples |-> <<>>,
                                  panicked |-> FALSE, call |-> calls + 1]]
    /\ Goto(t, "g_lock")
    /\ UNCHANGED <<ioVars, brainVars, mu, obs, span, ret, trained, delivered, forgotten>>

\* generate that does not take the lock
GenLockSkipped(t) ==
    /\ pc[t] = "g_lock"
    /\ Goto(t, "g_start")
    /\ UNCHANGED <<ioVars, brainVars, mu, obs, span, gen, ret, calls, trained, delivered, forgotten>>

\* b.mu.Lock(); defer b.mu.Unlock()
GenLock(t) ==
    /\ pc[t] = "g_lock"
    /\ mu = 0
    /\ mu' = t
    /\ Goto(t, "g_start")
    /\ UNCHANGED <<ioVars, brainVars, obs, span, gen, ret, calls, trained, delivered, forgotten>>

\* if len(seed) < m.N-1 { return "" }; var out = seed
GenStart(t) ==
    /\ pc[t] = "g_start"
    /\ IF ByteLen(gen[t].seed) < Model.N - 1
       THEN Goto(t, "g_ret") /\ UNCHANGED gen
       ELSE /\ gen' = [gen EXCEPT ![t].out = gen[t].seed]
            /\ Goto(t, "g_iter")
    /\ UNCHANGED <<ioVars, brainVars, mu, obs, span, ret, calls, trained, delivered, forgotten>>

\* one pass of "for range length": sample(m.probs(out)), break on 0, else
\* out += next; a panic in probs unwinds to the deferred Unlock
GenIter(t) ==
    /\ pc[t] = "g_iter"
    /\ IF gen[t].left <= 0
       THEN Goto(t, "g_ret") /\ UNCHANGED gen
       ELSE LET p == probs(Model, gen[t].out)
            IN IF p.panicked
               THEN /\ gen' = [gen EXCEPT ![t].panicked = TRUE]
                    /\ Goto(t, "g_ret")
               ELSE \E sampled \in sample(p.probs) :
                       IF sampled = 0
                       THEN /\ gen' = [gen EXCEPT ![t].samples = Append(@, 0)]
                            /\ Goto(t, "g_ret")
                       ELSE /\ gen' = [gen EXCEPT
                                  ![t].samples = Append(@, sampled),
                                  ![t].out = @ \o DecodeToken(Model.tokenizer, sampled),
                                  ![t].left = @ - 1]
                            /\ UNCHANGED pc
    /\ UNCHANGED <<ioVars, brainVars, mu, obs, span, ret, calls, trained, delivered, forgotten>>

\* return out: the deferred b.mu.Unlock() runs; a panic then ends the process
GenReturn(t) ==
    /\ pc[t] = "g_ret"
    /\ mu' = IF mu = t THEN 0 ELSE mu
    /\ ret' = [seed |-> gen[t].seed, length |-> gen[t].length, text |-> gen[t].out,
               samples |-> gen[t].samples, panicked |-> gen[t].panicked,
               call |-> gen[t].call]
    /\ gen' = [gen EXCEPT ![t] = NoGen]
    /\ pc' = IF gen[t].panicked THEN [u \in Tasks |-> "exit"]
             ELSE [pc EXCEPT ![t] = "idle"]
    /\ UNCHANGED <<ioVars, brainVars, obs, span, calls, trained, delivered, forgotten>>

NextGenerate ==
    \E t \in Tasks :
        \/ \E m \in LongMessages : CallObserve(t, m)
        \/ ObsGet(t)
        \/ ObsDuring(t)
        \/ ObsLock(t)
        \/ ObsTrain(t)
        \/ ObsMake(t)
        \/ ObsExtendEndTest(t)
        \/ ObsExtendEnd(t)
        \/ ObsExtendStartTest(t)
        \/ ObsExtendStart(t)
        \/ ObsSet(t)
        \/ \E m \in LongMessages : CallForget(t, m)
        \/ FgtGet(t)
        \/ FgtDuring(t)
        \/ FgtLock(t)
        \/ FgtForget(t)
        \/ \E seed \in LongSeeds, length \in 1..MaxLength : CallGenerate(t, seed, length)
        \/ GenLock(t)
        \/ GenStart(t)
        \/ GenIter(t)
        \/ GenReturn(t)

\* mentions answered by generate while messages are observed and deleted
SpecGenerate == Init /\ [][NextGenerate]_vars

\* ---------------------------------------------------------------- backfill

\* the limit observeSomeMessages passes to GetMessages
PageSize == 25

\* the channel's messages on the platform
History(c) == {m \in Messages : m.ChannelID = c}

RECURSIVE NewestFirst(_)
\* messages in the order the platform lists them: largest id first
NewestFirst(S) ==
    IF S = {} THEN <<>>
    ELSE LET m == CHOOSE m \in S : \A o \in S : o.ID <= m.ID
         IN <<m>> \o NewestFirst(S \ {m})

\* the first n elements of a sequence
FirstN(q, n) == SubSeq(q, 1, IF Len(q) < n THEN Len(q) ELSE n)

\* how the transport can answer GetMessages(channelID, msgID, msgID, msgID, 25),
\* which names the same id as around, before and after: with an error, or with
\* a page of at most 25 messages before the id, around it, or after it
Answers == {"error", "before", "around", "after"}

\* client.Rest().GetMessages(channelID, msgID, msgID, msgID, 25)
GetMessages(channelID, msgID, answer) ==
    IF answer = "error"
    THEN [err |-> TRUE, messages |-> <<>>]
    ELSE [err |-> FALSE,
          messages |-> FirstN(NewestFirst({m \in History(channelID) :
                                  CASE answer = "before" -> m.ID < msgID
                                    [] answer = "after" -> m.ID > msgID
                                    [] OTHER -> TRUE}),
                              PageSize)]

RECURSIVE observeAll(_, _)
\* for _, msg := range messages { b.observe(msg) }
observeAll(b, messages) ==
    IF messages = <<>> THEN b
    ELSE observeAll(observe(b, Head(messages)), Tail(messages))

RECURSIVE trainedIn(_, _)
\* the messages of the page that observe passes to Model.train
trainedIn(b, messages) ==
    IF messages = <<>> THEN EmptyBag
    ELSE LET b1 == observe(b, Head(messages))
         IN (IF b1.Model.Counts # b.Model.Counts
             THEN SetToBag({Head(messages)}) ELSE EmptyBag)
            (+) trainedIn(b1, Tail(messages))

\* observeSomeMessages that asks for a page (with the zero id) when the
\* channel has no span
observeSomeMessagesNoNilTest(b, channelID, answer) ==
    LET ts == getTrainedSpan(b, channelID)
        msgID == IF ts = Nil THEN 0 ELSE b.heap[ts].StartID
        resp == GetMessages(channelID, msgID, answer)
    IN IF resp.err
       THEN [b |-> b, requested |-> TRUE, err |-> TRUE, trained |-> EmptyBag]
       ELSE [b |-> observeAll(b, resp.messages), requested |-> TRUE,
             err |-> FALSE, trained |-> trainedIn(b, resp.messages)]

\* Brain.observeSomeMessages, run without interleaving: the Brain it leaves,
\* whether it asked the transport, whether that failed, and what it trained
observeSomeMessages(b, channelID, answer) ==
    LET ts == getTrainedSpan(b, channelID)
    IN IF ts = Nil
       THEN [b |-> b, requested |-> FALSE, err |-> FALSE, trained |-> EmptyBag]
       ELSE LET msgID == b.heap[ts].StartID
                resp == GetMessages(channelID, msgID, answer)
            IN IF resp.err
               THEN [b |-> b, requested |-> TRUE, err |-> TRUE,
                     trained |-> EmptyBag]
               ELSE [b |-> observeAll(b, resp.messages), requested |-> TRUE,
                     err |-> FALSE, trained |-> trainedIn(b, resp.messages)]

\* observeChannels: go brain.observeSomeMessages(client, channelID), on every
\* tick, for as long as the process runs
Backfill(c, answer) ==
    /\ LET r == observeSomeMessages(TheBrain, c, answer)
       IN /\ Model' = r.b.Model
          /\ TrainedSpans' = r.b.TrainedSpans
          /\ heap' = r.b.heap
          /\ trained' = trained (+) r.trained
          /\ fetched' = [fetched EXCEPT ![c] =
                            [called |-> TRUE, requested |-> r.requested,
                             err |-> r.err]]
    /\ UNCHANGED <<taskVars, calls, delivered, forgotten, file, saved, guildVars>>

\* what the gateway delivers while the backfill runs: one user's messages;
\* the rest of Messages was posted while the process was not running
LiveMessages == {m \in Messages : m = Message(m.ChannelID, m.CreatedAt, 2)}

\* onMessageCreate: b.observe(m), between backfill calls
LiveObserve(m) ==
    /\ calls < MaxLive
    /\ SeqObserve(m)

NextBackfill ==
    \/ \E m \in LiveMessages : LiveObserve(m)
    \/ \E c \in Channels, answer \in Answers : Backfill(c, answer)

\* the gateway's deliveries and the backfill ticks, one call at a time
SpecBackfill == Init /\ [][NextBackfill]_vars

\* ------------------------------------------------------------- persistence

\* encoder.Encode(b): encoding/gob writes the exported fields only, and a
\* pointer as what it points to.  Of Brain these are Model, TrainedSpans and
\* GuildID (one guild here), not mu; of NgramModel they are Counts, N and
\* Smoothing, not tokenizer.
gobEncode(b) ==
    [Model |-> [Counts |-> b.Model.Counts, N |-> b.Model.N,
                Smoothing |-> b.Model.Smoothing],
     TrainedSpans |-> [c \in {d \in Channels : b.TrainedSpans[d] # Nil} |->
                          b.heap[b.TrainedSpans[c]]]]

\* LoadBrain: NewBrain when there is no file; else the decoded fields, a new
\* TrainedSpan object per map entry, and the tokenizer &CharTokenizer{}
LoadBrain(f) ==
    IF f = <<>> THEN NewBrain
    ELSE LET data == f[1]
             chans == DOMAIN data.TrainedSpans
             index(c) == Cardinality({d \in chans : d <= c})
         IN [Model |-> [Counts |-> data.Model.Counts,
                        tokenizer |-> [vocab |-> <<>>, special_tokens |-> <<>>],
                        N |-> data.Model.N,
                        Smoothing |-> data.Model.Smoothing],
             TrainedSpans |-> [c \in Channels |->
                                  IF c \in chans THEN index(c) ELSE Nil],
             heap |-> [i \in 1..Cardinality(chans) |->
                          data.TrainedSpans[CHOOSE c \in chans : index(c) = i]]]

\* the process is running and no call is in progress
Running == \A t \in Tasks : pc[t] = "idle"

\* onMessageCreate while the process runs
RunObserve(m) == Running /\ SeqObserve(m)

\* onMessageDelete while the process runs
RunForget(m) == Running /\ SeqForget(m)

\* main's deferred brain.Save() as the process ends; os.WriteFile's error is
\* not looked at, so the file is written (ok) or stays as it was
Shutdown(ok) ==
    /\ Running
    /\ pc' = [t \in Tasks |-> "exit"]
    /\ file' = IF ok THEN <<gobEncode(TheBrain)>> ELSE file
    /\ saved' = IF ok THEN [set |-> TRUE, calls |-> calls, b |-> TheBrain]
                ELSE saved
    /\ UNCHANGED <<brainVars, mu, obs, span, gen, ret, calls, delivered,
                   trained, forgotten, fetched, guildVars>>

\* the next run of the process: retrieve_guild_brain calls LoadBrain
Startup ==
    /\ \A t \in Tasks : pc[t] = "exit"
    /\ LET b == LoadBrain(file)
       IN /\ Model' = b.Model
          /\ TrainedSpans' = b.TrainedSpans
          /\ heap' = b.heap
    /\ pc' = [t \in Tasks |-> "idle"]
    /\ UNCHANGED <<mu, obs, span, gen, ret, calls, delivered, trained,
                   forgotten, ioVars>>

NextPersist ==
    \/ \E m \in Messages : RunObserve(m)
    \/ \E m \in Messages : RunForget(m)
    \/ \E ok \in BOOLEAN : Shutdown(ok)
    \/ Startup

\* runs of the process, each ending with Save and starting with LoadBrain
SpecPersist == Init /\ [][NextPersist]_vars

\* ------------------------------------------- observe calls across channels

\* users' messages in two channels, two per channel at different times, one
\* of them with a two-byte character
CrossMessages ==
    { [ID |-> MsgID(1, 1, 6), ChannelID |-> 1, CreatedAt |-> 1,
       Content |-> TextList[2], Bot |-> FALSE],
      [ID |-> MsgID(1, 2, 7), ChannelID |-> 1, CreatedAt |-> 2,
       Content |-> TextList[3], Bot |-> FALSE],
      [ID |-> MsgID(2, 1, 6), ChannelID |-> 2, CreatedAt |-> 1,
       Content |-> TextList[2], Bot |-> FALSE],
      [ID |-> MsgID(2, 2, 7), ChannelID |-> 2, CreatedAt |-> 2,
       Content |-> TextList[4], Bot |-> FALSE] }

NextCross ==
    \E t \in Tasks :
        \/ \E m \in CrossMessages : CallObserve(t, m)
        \/ ObsGet(t)
        \/ ObsDuring(t)
        \/ ObsLock(t)
        \/ ObsTrain(t)
        \/ ObsMake(t)
        \/ ObsExtendEndTest(t)
        \/ ObsExtendEnd(t)
        \/ ObsExtendStartTest(t)
        \/ ObsExtendStart(t)
        \/ ObsSet(t)

\* observe calls of two callers, interleaved, on the messages of two channels
SpecCross == Init /\ [][NextCross]_vars

\* ------------------------------------------ spans merged with Union
\* Three TrainedSpan objects: heap[1] is extended message by message,
\* heap[2] is the span of the page being built, heap[3] the span the pages
\* are merged into. pc[1] = "page" while a page is not merged yet.

\* the messages of one channel that pages are made of: two authors, so that
\* two messages can share a timestamp
PageMessages ==
    {m \in Messages : m = Message(1, m.CreatedAt, 2) \/ m = Message(1, m.CreatedAt, 4)}

\* makeSpan(msg) starts a page; the message also goes to the span that is
\* extended message by message
PageMake(msg) ==
    /\ pc[1] = "idle"
    /\ calls < MaxCalls
    /\ heap' = IF heap = <<>>
               THEN <<makeSpan(msg), makeSpan(msg)>>
               ELSE [heap EXCEPT ![1] = ExtendSpan(@, msg), ![2] = makeSpan(msg)]
    /\ pc' = [pc EXCEPT ![1] = "page"]
    /\ delivered' = Add(delivered, msg)
    /\ calls' = calls + 1
    /\ UNCHANGED <<ioVars, Model, TrainedSpans, mu, obs, span, gen, ret, trained, forgotten>>

\* ts.ExtendSpan(msg) on the page and on the span extended message by message
PageExtend(msg) ==
    /\ pc[1] = "page"
    /\ calls < MaxCalls
    /\ heap' = [heap EXCEPT ![1] = ExtendSpan(@, msg), ![2] = ExtendSpan(@, msg)]
    /\ delivered' = Add(delivered, msg)
    /\ calls' = calls + 1
    /\ UNCHANGED <<ioVars, Model, TrainedSpans, taskVars, trained, forgotten>>

\* merged.Union(page); the first page's span is the one later pages are
\* merged into
PageUnion ==
    /\ pc[1] = "page"
    /\ heap' = IF Len(heap) = 2
               THEN Append(heap, heap[2])
               ELSE [heap EXCEPT ![3] = Union(@, heap[2])]
    /\ pc' = [pc EXCEPT ![1] = "idle"]
    /\ UNCHANGED <<ioVars, Model, TrainedSpans, mu, obs, span, gen, ret, calls,
                   delivered, trained, forgotten>>

NextUnion ==
    \/ \E msg \in PageMessages : PageMake(msg)
    \/ \E msg \in PageMessages : PageExtend(msg)
    \/ PageUnion

\* messages in any order, cut into pages in any way, each page merged with
\* Union when it is complete
SpecUnion == Init /\ [][NextUnion]_vars

\* ------------------------------- ExtendSpan, one field assignment at a time
\* observe as in Spec, with each assignment of ExtendSpan a step of its own:
\* the span is written without the lock, so another goroutine's assignment
\* can come between the two of one branch.

\* one user's messages in channel 1
FieldMessages == {m \in Messages : m = Message(1, m.CreatedAt, 2)}

\* ts.End = t
ObsWriteEnd(t) ==
    /\ pc[t] = "o_end"
    /\ heap' = [heap EXCEPT ![span[t]] = [@ EXCEPT !.End = obs[t].CreatedAt]]
    /\ Goto(t, "o_endid")
    /\ UNCHANGED <<ioVars, Model, TrainedSpans, mu, obs, span, calls, trained, delivered, forgotten, gen, ret>>

\* ts.EndID = msg.ID
ObsWriteEndID(t) ==
    /\ pc[t] = "o_endid"
    /\ heap' = [heap EXCEPT ![span[t]] = [@ EXCEPT !.EndID = obs[t].ID]]
    /\ Goto(t, "o_start")
    /\ UNCHANGED <<ioVars, Model, TrainedSpans, mu, obs, span, calls, trained, delivered, forgotten, gen, ret>>

\* ts.Start = t
ObsWriteStart(t) ==
    /\ pc[t] = "o_startw"
    /\ heap' = [heap EXCEPT ![span[t]] = [@ EXCEPT !.Start = obs[t].CreatedAt]]
    /\ Goto(t, "o_startid")
    /\ UNCHANGED <<ioVars, Model, TrainedSpans, mu, obs, span, calls, trained, delivered, forgotten, gen, ret>>

\* ts.StartID = msg.ID
ObsWriteStartID(t) ==
    /\ pc[t] = "o_startid"
    /\ heap' = [heap EXCEPT ![span[t]] = [@ EXCEPT !.StartID = obs[t].ID]]
    /\ Goto(t, "o_set")
    /\ UNCHANGED <<ioVars, Model, TrainedSpans, mu, obs, span, calls, trained, delivered, forgotten, gen, ret>>

NextFields ==
    \E t \in Tasks :
        \/ \E m \in FieldMessages : CallObserve(t, m)
        \/ ObsGet(t)
        \/ ObsDuring(t)
        \/ ObsLock(t)
        \/ ObsTrain(t)
        \/ ObsMake(t)
        \/ ObsExtendEndTest(t)
        \/ ObsWriteEnd(t)
        \/ ObsWriteEndID(t)
        \/ ObsExtendStartTest(t)
        \/ ObsWriteStart(t)
        \/ ObsWriteStartID(t)
        \/ ObsSet(t)

\* observe calls of two goroutines on one channel, interleaved
SpecFields == Init /\ [][NextFields]_vars

\* ------------------------------------------------- one Brain per guild
\* retrieve_guild_brain as the event handlers and observeChannels call it,
\* by step: the map guilds is read and written without a lock.

\* event.GuildID of a message event
GuildOf(m) == m.ChannelID

\* the events the gateway dispatches: one user's messages in each guild, and
\* a bot's messages in guild 1
GuildMessages ==
    LiveMessages \cup {m \in Messages : m = Message(1, m.CreatedAt, 4)}

\* a task enters onMessageCreate or onMessageDelete: if Author.Bot { return }
CallHandler(t, kind, m) ==
    /\ pc[t] = "idle"
    /\ calls < MaxOps
    /\ calls' = calls + 1
    /\ IF m.Bot
       THEN UNCHANGED <<pc, obs, handler>>
       ELSE /\ obs' = [obs EXCEPT ![t] = m]
            /\ handler' = [handler EXCEPT ![t] = [kind |-> kind, schizo |-> Nil]]
            /\ Goto(t, "r_test")
    /\ UNCHANGED <<brainVars, mu, span, gen, ret, delivered, trained, forgotten,
                   fetched, file, saved, guilds, brains, loops>>

\* retrieve_guild_brain: if guilds[id] == nil
RetrieveTest(t) ==
    /\ pc[t] = "r_test"
    /\ Goto(t, IF guilds[GuildOf(obs[t])] = Nil THEN "r_new" ELSE "r_ret")
    /\ UNCHANGED <<brainVars, mu, obs, span, gen, ret, calls, delivered, trained,
                   forgotten, ioVars>>

\* guilds[id] = LoadBrain(id); go observeChannels(client, id)
RetrieveNew(t) ==
    /\ pc[t] = "r_new"
    /\ brains' = Append(brains, [guild |-> GuildOf(obs[t]), b |-> LoadBrain(file)])
    /\ guilds' = [guilds EXCEPT ![GuildOf(obs[t])] = Len(brains) + 1]
    /\ loops' = Append(loops, [guild |-> GuildOf(obs[t]), brain |-> Nil])
    /\ Goto(t, "r_ret")
    /\ UNCHANGED <<brainVars, mu, obs, span, gen, ret, calls, delivered, trained,
                   forgotten, fetched, file, saved, handler>>

\* return guilds[id], assigned to the handler's schizo
RetrieveReturn(t) ==
    /\ pc[t] = "r_ret"
    /\ handler' = [handler EXCEPT ![t].schizo = guilds[GuildOf(obs[t])]]
    /\ Goto(t, "h_call")
    /\ UNCHANGED <<brainVars, mu, obs, span, gen, ret, calls, delivered, trained,
                   forgotten, fetched, file, saved, guilds, brains, loops>>

\* schizo.observe(event.Message) in onMessageCreate, schizo.forget(event.Message)
\* in onMessageDelete; the handler returns
HandlerCall(t) ==
    /\ pc[t] = "h_call"
    /\ brains' = [brains EXCEPT ![handler[t].schizo].b =
                     IF handler[t].kind = "create"
                     THEN observe(@, obs[t])
                     ELSE brainForget(@, obs[t])]
    /\ handler' = [handler EXCEPT ![t] = NoHandler]
    /\ Return(t)
    /\ UNCHANGED <<brainVars, mu, gen, ret, calls, delivered, trained, forgotten,
                   fetched, file, saved, guilds, loops>>

\* observeChannels: brain := retrieve_guild_brain(client, guildID); the entry
\* was stored before the go statement and entries are never removed, so the
\* call returns guilds[guildID] as it is now
LoopRetrieve(i) ==
    /\ loops[i].brain = Nil
    /\ \A t \in Tasks : pc[t] # "fatal"
    /\ loops' = [loops EXCEPT ![i].brain = guilds[loops[i].guild]]
    /\ UNCHANGED <<brainVars, taskVars, calls, delivered, trained, forgotten,
                   fetched, file, saved, guilds, brains, handler>>

\* observeChannels' loop: for channelID := range brain.TrainedSpans
\* { go brain.observeSomeMessages(client, channelID) }
LoopBackfill(i, c, answer) ==
    /\ loops[i].brain # Nil
    /\ \A t \in Tasks : pc[t] # "fatal"
    /\ calls < MaxOps
    /\ brains[loops[i].brain].b.TrainedSpans[c] # Nil
    /\ brains' = [brains EXCEPT ![loops[i].brain].b =
                     observeSomeMessages(@, c, answer).b]
    /\ calls' = calls + 1
    /\ UNCHANGED <<brainVars, taskVars, delivered, trained, forgotten,
                   fetched, file, saved, guilds, loops, handler>>

\* the goroutine is about to read or write the map guilds
AtMap(t) == pc[t] \in {"r_test", "r_new", "r_ret"}

\* a write of the map guilds at the same time as another goroutine's access
\* to it: the runtime may end the process (fatal error: concurrent map writes,
\* or concurrent map read and map write)
MapFault(t) ==
    /\ pc[t] = "r_new"
    /\ \/ \E u \in Tasks \ {t} : AtMap(u)
       \/ \E i \in 1..Len(loops) : loops[i].brain = Nil
    /\ pc' = [u \in Tasks |-> "fatal"]
    /\ UNCHANGED <<brainVars, mu, obs, span, gen, ret, calls, delivered, trained,
                   forgotten, ioVars>>

NextGuild ==
    \/ \E t \in Tasks, m \in GuildMessages : CallHandler(t, "create", m)
    \/ \E t \in Tasks, m \in GuildMessages : CallHandler(t, "delete", m)
    \/ \E t \in Tasks : RetrieveTest(t)
    \/ \E t \in Tasks : RetrieveNew(t)
    \/ \E t \in Tasks : RetrieveReturn(t)
    \/ \E t \in Tasks : HandlerCall(t)
    \/ \E i \in 1..Len(loops) : LoopRetrieve(i)
    \/ \E i \in 1..Len(loops), c \in Channels, answer \in Answers :
           LoopBackfill(i, c, answer)
    \/ \E t \in Tasks : MapFault(t)

\* the event handlers of two goroutines and the observeChannels goroutines
\* they start, interleaved
SpecGuild == Init /\ [][NextGuild]_vars

\* ------------------------------------------------------------------ claims

\* the channel has a span
HasSpan(b, channelID) == b.TrainedSpans[channelID] # Nil

\* the channel's span as a value, when it has one
SpanOf(b, channelID) == b.heap[b.TrainedSpans[channelID]]

\* the channel has the same span (or none) in both Brain values
SameSpan(b1, b2, channelID) ==
    /\ HasSpan(b1, channelID) = HasSpan(b2, channelID)
    /\ HasSpan(b1, channelID) => SpanOf(b1, channelID) = SpanOf(b2, channelID)

\* C1: in every Brain state reached by calls that run one at a time, and for
\* every message m, a second observe(m) right after observe(m) leaves the
\* counts, the vocabulary and the channel's span as the first call left them.
C1_ObserveIdempotent ==
    \A m \in Messages :
        LET b1 == observe(TheBrain, m)
            b2 == observe(b1, m)
        IN /\ b2.Model.Counts = b1.Model.Counts
           /\ b2.Model.tokenizer.vocab = b1.Model.tokenizer.vocab
           /\ SameSpan(b2, b1, m.ChannelID)

\* C1 witness: a qualifying message was passed to observe twice and trained
C1_Witness ==
    \E m \in Messages :
        /\ shouldObserve(m)
        /\ CopiesIn(m, delivered) = 2
        /\ CopiesIn(m, trained) = 1

\* C2: when concurrent callers deliver the same qualifying message m to one
\* Brain and nothing else, then under every interleaving, once all calls have
\* returned, m was trained once and the counts are those of a single
\* observe(m).
C2_TrainedOnceConcurrently ==
    \A m \in Messages :
        (/\ shouldObserve(m)
         /\ BagToSet(delivered) = {m}
         /\ forgotten = EmptyBag
         /\ \A t \in Tasks : pc[t] = "idle")
        => /\ CopiesIn(m, trained) = 1
           /\ Model.Counts = observe(NewBrain, m).Model.Counts

\* C3 as stated: every qualifying message that was passed to observe at
\* least once has had its content trained exactly once.
C3_ExactlyOnce ==
    \A m \in BagToSet(delivered) :
        shouldObserve(m) => CopiesIn(m, trained) = 1

\* the time of m is covered by the span of its channel
Covered(b, m) ==
    /\ HasSpan(b, m.ChannelID)
    /\ SpanOf(b, m.ChannelID).Start <= m.CreatedAt
    /\ m.CreatedAt <= SpanOf(b, m.ChannelID).End

\* C3, amended: over any sequence of observe and forget calls run one after
\* another, no message is trained more than once, only delivered qualifying
\* messages are trained, and an observe(m) call trains m exactly when m
\* qualifies and its time is not yet covered by the span of its channel (a
\* qualifying message whose time is already covered is never trained).
C3_AtMostOnce ==
    /\ [](\A m \in BagToSet(trained) :
            /\ CopiesIn(m, trained) = 1
            /\ shouldObserve(m)
            /\ BagIn(m, delivered))
    /\ [][\A m \in Messages :
            SeqObserve(m) =>
                CopiesIn(m, trained') =
                    IF shouldObserve(m) /\ ~Covered(TheBrain, m)
                    THEN 1 ELSE CopiesIn(m, trained)]_vars

\* C3 witness: one qualifying message was delivered and trained once, and
\* another, delivered with its time strictly inside the span, never was
C3_Witness ==
    \E m1, m2 \in BagToSet(delivered) :
        /\ shouldObserve(m1) /\ shouldObserve(m2)
        /\ CopiesIn(m1, trained) = 1
        /\ CopiesIn(m2, trained) = 0
        /\ m1.ChannelID = m2.ChannelID
        /\ HasSpan(TheBrain, m2.ChannelID)
        /\ SpanOf(TheBrain, m2.ChannelID).Start < m2.CreatedAt
        /\ m2.CreatedAt < SpanOf(TheBrain, m2.ChannelID).End

\* the n-gram keys of text T once T is in the vocabulary: orders 1..N over
\* encode(T) followed by the end-of-text symbol
KeysOf(m, T) ==
    LET c == Observe(m.tokenizer, T)
        keys == NgramKeys(c, Append(Encode(c, T), 0), 1, m.N)
    IN {keys[i] : i \in 1..Len(keys)}

\* C4: in every model state and for every non-empty text T, train(T) followed
\* by forget(T) leaves the count of every n-gram key of T equal to its count
\* before train(T), and the counts of all other keys unchanged.
C4_TrainForgetInverse ==
    \A T \in Texts \ {<<>>} :
        LET after == forget(train(Model, T), T)
        IN /\ \A k \in KeysOf(Model, T) :
                CountAt(after.Counts, k) = CountAt(Model.Counts, k)
           /\ \A k \in (DOMAIN after.Counts \cup DOMAIN Model.Counts) \ KeysOf(Model, T) :
                CountAt(after.Counts, k) = CountAt(Model.Counts, k)

\* C4 witness: a text with a two-byte rune was trained once and then
\* forgotten once, and every count is back at 0
C4_Witness ==
    \E T \in Texts :
        /\ \E i \in 1..Len(T) : RuneLen(T[i]) > 1
        /\ trained = SetToBag({T})
        /\ forgotten = SetToBag({T})
        /\ DOMAIN Model.Counts # {}
        /\ \A k \in DOMAIN Model.Counts : Model.Counts[k] = 0

\* C5: after any sequence of train and forget calls every count is >= 0, and
\* a further forget of any text removes no key, raises no count, and leaves
\* every count that is 0 at 0.
C5_CountsNeverNegative ==
    /\ \A k \in DOMAIN Model.Counts : Model.Counts[k] >= 0
    /\ \A T \in Texts :
        LET after == forget(Model, T)
        IN /\ DOMAIN after.Counts = DOMAIN Model.Counts
           /\ \A k \in DOMAIN Model.Counts :
                /\ after.Counts[k] >= 0
                /\ after.Counts[k] <= Model.Counts[k]
                /\ Model.Counts[k] = 0 => after.Counts[k] = 0

\* C5 witness: a text was forgotten more often than it was trained, and its
\* keys are still in the table with count 0
C5_Witness ==
    \E T \in Texts \ {<<>>} :
        /\ CopiesIn(T, trained) >= 1
        /\ CopiesIn(T, forgotten) > CopiesIn(T, trained)
        /\ \A k \in KeysOf(Model, T) :
                k \in DOMAIN Model.Counts /\ Model.Counts[k] = 0

\* C6: in every reachable Brain state, forget(m) for a message m whose
\* content is not counted (observe never trained it, or forget already
\* un-trained it) leaves every count unchanged.
C6_ForgetOnlyCounted ==
    \A m \in Messages :
        CopiesIn(m, trained) <= CopiesIn(m, forgotten) =>
            brainForget(TheBrain, m).Model.Counts = Model.Counts

\* C7: Brain.forget(m) leaves the counts table unchanged whenever m has empty
\* content, m's author is a bot, m's channel has no span, or m's time is
\* outside the channel's span [start, end].
C7_ForgetGuards ==
    \A m \in Messages :
        (\/ Len(m.Content) = 0
         \/ m.Bot
         \/ ~HasSpan(TheBrain, m.ChannelID)
         \/ m.CreatedAt < SpanOf(TheBrain, m.ChannelID).Start
         \/ m.CreatedAt > SpanOf(TheBrain, m.ChannelID).End)
        => brainForget(TheBrain, m).Model.Counts = Model.Counts

\* a key of m's content has a positive count: Model.forget(m.Content) would
\* change the table
WouldDecrement(m) ==
    \E k \in KeysOf(Model, m.Content) : CountAt(Model.Counts, k) > 0

\* C7 witness: a forget call returned early (calls counts it, forgotten does
\* not), and in the state reached each guard fails for some message whose
\* content has counted keys
C7_Witness ==
    /\ calls > BagCardinality(delivered) + BagCardinality(forgotten)
    /\ \E m \in Messages : m.Bot /\ Covered(TheBrain, m) /\ WouldDecrement(m)
    /\ \E m \in Messages :
        ~m.Bot /\ ~HasSpan(TheBrain, m.ChannelID) /\ WouldDecrement(m)
    /\ \E m \in Messages :
        /\ ~m.Bot /\ HasSpan(TheBrain, m.ChannelID)
        /\ ~Covered(TheBrain, m) /\ WouldDecrement(m)

\* C8: under every interleaving of observe calls, once a channel's span
\* covers a time it covers it in every later state: the channel keeps a
\* span, start never increases, end never decreases, and start <= end.
C8_SpanMonotonic ==
    [][\A c \in Channels :
        TrainedSpans[c] # Nil =>
            /\ TrainedSpans'[c] # Nil
            /\ heap'[TrainedSpans'[c]].Start <= heap[TrainedSpans[c]].Start
            /\ heap'[TrainedSpans'[c]].End >= heap[TrainedSpans[c]].End
            /\ heap'[TrainedSpans'[c]].Start <= heap'[TrainedSpans'[c]].End]_vars

\* C9: for a span made from one message and extended by any sequence of
\* ExtendSpan calls, start <= end, and one more ExtendSpan call with any
\* message does not raise start, does not lower end, keeps start <= end, and
\* changes nothing when the message's time lies inside the span.
C9_ExtendSpanMonotonic ==
    heap # <<>> =>
        /\ heap[1].Start <= heap[1].End
        /\ \A msg \in Messages :
            LET e == ExtendSpan(heap[1], msg)
            IN /\ e.Start <= heap[1].Start
               /\ e.End >= heap[1].End
               /\ e.Start <= e.End
               /\ (heap[1].Start <= msg.CreatedAt /\ msg.CreatedAt <= heap[1].End)
                    => e = heap[1]

\* C9 witness: the span was extended at both ends, by messages other than
\* the one it was made from
C9_Witness ==
    /\ heap # <<>>
    /\ calls >= 2
    /\ heap[1].Start < heap[1].End
    /\ heap[1].StartID # heap[1].EndID
    /\ \E msg \in Messages :
        /\ heap[1].Start < msg.CreatedAt
        /\ msg.CreatedAt < heap[1].End

Min(a, b) == IF a <= b THEN a ELSE b
Max(a, b) == IF a >= b THEN a ELSE b

\* observe(m) changed nothing: counts, vocabulary and the channel's span
NoOp(b1, m) ==
    /\ b1.Model.Counts = Model.Counts
    /\ b1.Model.tokenizer.vocab = Model.tokenizer.vocab
    /\ SameSpan(b1, TheBrain, m.ChannelID)

\* C10: for a qualifying message at time t, observe is a complete no-op iff
\* the channel has a span [s, e] with s <= t <= e; otherwise it trains the
\* content once and the span becomes [min(s,t), max(e,t)], or [t, t] when
\* the channel had no span.
C10_ObserveEffect ==
    \A m \in Messages :
        shouldObserve(m) =>
            LET b1 == observe(TheBrain, m)
                old == SpanOf(TheBrain, m.ChannelID)
                new == SpanOf(b1, m.ChannelID)
                t == m.CreatedAt
            IN IF ~HasSpan(TheBrain, m.ChannelID)
               THEN /\ b1.Model = train(Model, m.Content)
                    /\ b1.Model.Counts # Model.Counts
                    /\ HasSpan(b1, m.ChannelID)
                    /\ new.Start = t /\ new.End = t
               ELSE /\ NoOp(b1, m) <=> (old.Start <= t /\ t <= old.End)
                    /\ ~(old.Start <= t /\ t <= old.End) =>
                        /\ b1.Model = train(Model, m.Content)
                        /\ b1.Model.Counts # Model.Counts
                        /\ new.Start = Min(old.Start, t)
                        /\ new.End = Max(old.End, t)

\* C10 witness: the scenario of three observes: a span made by one message,
\* extended by a second, and a third inside it that was not trained
C10_Witness ==
    \E m1, m2, m3 \in BagToSet(delivered) :
        /\ shouldObserve(m1) /\ shouldObserve(m2) /\ shouldObserve(m3)
        /\ m1.ChannelID = m2.ChannelID /\ m2.ChannelID = m3.ChannelID
        /\ m2.CreatedAt < m3.CreatedAt /\ m3.CreatedAt < m1.CreatedAt
        /\ trained = SetToBag({m1, m2})
        /\ HasSpan(TheBrain, m1.ChannelID)
        /\ SpanOf(TheBrain, m1.ChannelID) =
             [Start |-> m2.CreatedAt, End |-> m1.CreatedAt,
              StartID |-> m2.ID, EndID |-> m1.ID]

\* C11: in every Brain state reached by calls that run one at a time, and for
\* every message m, forget(m) leaves the channel-to-span map (which channels
\* have a span), every span's start, end, startID and endID, and the
\* vocabulary exactly as they were.
C11_ForgetKeepsSpans ==
    \A m \in Messages :
        LET b == brainForget(TheBrain, m)
        IN /\ b.TrainedSpans = TrainedSpans
           /\ b.heap = heap
           /\ b.Model.tokenizer = Model.tokenizer

\* C11 witness: forget has lowered the counts of a trained message whose
\* channel still has its span
C11_Witness ==
    \E m \in BagToSet(forgotten) :
        /\ CopiesIn(m, trained) = 1
        /\ HasSpan(TheBrain, m.ChannelID)
        /\ DuringSpan(SpanOf(TheBrain, m.ChannelID), m.CreatedAt)
        /\ CountAt(Model.Counts, m.Content) = 0

\* the elements of a sequence
Range(q) == {q[i] : i \in 1..Len(q)}

\* the first position of rune r in text T
FirstAt(T, r) == CHOOSE i \in 1..Len(T) : T[i] = r /\ \A j \in 1..(i - 1) : T[j] # r

\* how often key occurs as the decoding of a window of 1..nMax tokens
Occurrences(c, tokens, nMax, key) ==
    Cardinality({w \in (1..nMax) \X (1..Len(tokens)) :
                    /\ w[2] + w[1] - 1 <= Len(tokens)
                    /\ Decode(c, SubSeq(tokens, w[2], w[2] + w[1] - 1)) = key})

\* texts for train: those of Texts and one that repeats a character
TrainTexts == (Texts \ {<<>>}) \cup {<<"a", "a">>}

\* C12: in every model state and for every non-empty text T, train(T) first
\* appends T's unseen characters to the vocabulary in first-seen order, then
\* raises the count of each key by the number of windows of 1..N tokens of
\* encode(T) + end-of-text that decode to it, and changes no other key; on an
\* empty model with N=3, train("ab") gives vocabulary [a, b], ids 1 and 2,
\* and count 1 for a, b, ab and ab+end-of-text.
C12_TrainCounts ==
    /\ \A T \in TrainTexts :
           LET m1 == train(Model, T)
               old == Model.tokenizer.vocab
               new == m1.tokenizer.vocab
               added == SubSeq(new, Len(old) + 1, Len(new))
               tokens == Append(Encode(m1.tokenizer, T), 0)
               Occ(k) == Occurrences(m1.tokenizer, tokens, Model.N, k)
           IN /\ SubSeq(new, 1, Len(old)) = old
              /\ Range(added) = Range(T) \ Range(old)
              /\ \A i, j \in 1..Len(added) :
                     i < j => FirstAt(T, added[i]) < FirstAt(T, added[j])
              /\ \A k \in DOMAIN m1.Counts :
                     m1.Counts[k] = CountAt(Model.Counts, k) + Occ(k)
              /\ \A k \in DOMAIN m1.Counts \ DOMAIN Model.Counts : Occ(k) > 0
              /\ DOMAIN Model.Counts \subseteq DOMAIN m1.Counts
    /\ LET e == train(NewNgramModel(NewCharTokenizer, 3, 0), <<"a", "b">>)
       IN /\ e.tokenizer.vocab = <<"a", "b">>
          /\ Encode(e.tokenizer, <<"a", "b">>) = <<1, 2>>
          /\ CountAt(e.Counts, <<"a">>) = 1
          /\ CountAt(e.Counts, <<"b">>) = 1
          /\ CountAt(e.Counts, <<"a", "b">>) = 1
          /\ CountAt(e.Counts, <<"a", "b">> \o EndOfText) = 1

\* C12 witness: a model with N=3 has trained "a" and then "ab", and nothing
\* was forgotten: the key a stands at 2, ab and ab+end-of-text at 1
C12_Witness ==
    /\ Model.N = 3
    /\ forgotten = EmptyBag
    /\ CopiesIn(<<"a">>, trained) = 1
    /\ CopiesIn(<<"a", "b">>, trained) = 1
    /\ CountAt(Model.Counts, <<"a">>) = 2
    /\ CountAt(Model.Counts, <<"a", "b">>) = 1
    /\ CountAt(Model.Counts, <<"a", "b">> \o EndOfText) = 1

\* the characters of the texts
Runes == UNION {Range(T) : T \in Texts}

\* C13: in every vocabulary state, Encode gives an observed character the id
\* S + its 0-based position in the vocabulary, whatever its encoded width;
\* Decode(Encode(T)) = T for every text T whose characters were all
\* observed; an unobserved character encodes to a value that is no valid id.
C13_EncodeRoundTrip ==
    LET c == Model.tokenizer
        S == Len(c.special_tokens)
    IN /\ \A i \in 1..Len(c.vocab) : EncodeRune(c, c.vocab[i]) = S + (i - 1)
       /\ \A T \in Texts :
              Range(T) \subseteq Range(c.vocab) => Decode(c, Encode(c, T)) = T
       /\ \A r \in Runes \ Range(c.vocab) :
              EncodeRune(c, r) \notin 0..(VocabSize(c) - 1)

\* C14: over any sequence of Observe, train, forget and generate calls the
\* vocabulary holds no character twice, VocabSize() is S + its length,
\* Observe(T) twice gives what Observe(T) once gives, every step leaves the
\* earlier vocabulary as a prefix of the later one, and forget and generate
\* leave it as it is.
C14_VocabAppendOnly ==
    /\ [](LET c == Model.tokenizer
          IN /\ \A i, j \in 1..Len(c.vocab) : c.vocab[i] = c.vocab[j] => i = j
             /\ VocabSize(c) = Len(c.special_tokens) + Cardinality(Range(c.vocab))
             /\ \A T \in Texts : Observe(Observe(c, T), T) = Observe(c, T)
             /\ \A T \in Texts : forget(Model, T).tokenizer = c)
    /\ [][LET old == Model.tokenizer.vocab
              new == Model'.tokenizer.vocab
          IN /\ Len(old) <= Len(new)
             /\ SubSeq(new, 1, Len(old)) = old
             /\ (forgotten' # forgotten \/ ret' # ret) => new = old]_vars

\* C14 witness: the vocabulary grew in two calls, the second text bringing
\* one character already present, and a generate call has returned since
C14_Witness ==
    /\ Model.tokenizer.vocab = <<"a", "b", "é">>
    /\ ret.call > 0
    /\ ~ret.panicked

\* C15: in every model state reachable by train and forget calls, and for
\* every text of at least N-1 symbols, probs(text) has VocabSize() entries,
\* none negative, and with Smoothing > 0 they sum to 1: the numerators
\* countOf(context + [i], N) + Smoothing add up to the denominator
\* countOf(context, N) + VocabSize() * Smoothing.
C15_ProbsDistribution ==
    \A T \in Texts \cup GenSeeds :
        Len(Encode(Model.tokenizer, T)) >= Model.N - 1 =>
            LET p == probs(Model, T)
            IN /\ ~p.panicked
               /\ Len(p.probs) = VocabSize(Model.tokenizer)
               /\ \A i \in 1..Len(p.probs) : p.probs[i].num >= 0 /\ p.probs[i].den > 0
               /\ Model.Smoothing > 0 =>
                      \A i \in 1..Len(p.probs) : SumNum(p.probs) = p.probs[i].den

\* C16: every generate call whose seed has fewer than N-1 characters has
\* returned the empty text, without a panic and without sampling, also when
\* the seed holds multi-byte characters.
C16_ShortSeedRejected ==
    (ret.call > 0 /\ Len(ret.seed) < Model.N - 1) =>
        /\ ~ret.panicked
        /\ ret.text = <<>>
        /\ ret.samples = <<>>

\* C17: every generate call, in every model state and for every seed and
\* maxLength, has returned (no panic) after at most maxLength sampling
\* iterations, the end-of-text id 0 being sampled in the last one at most,
\* and its text is the seed followed by at most maxLength symbols.
C17_GenerateTerminates ==
    ret.call > 0 =>
        /\ ~ret.panicked
        /\ Len(ret.samples) <= ret.length
        /\ \A i \in 1..(Len(ret.samples) - 1) : ret.samples[i] # 0
        /\ Len(ret.text) >= Len(ret.seed)
        /\ SubSeq(ret.text, 1, Len(ret.seed)) = ret.seed
        /\ Len(ret.text) - Len(ret.seed) <= ret.length

\* the context probs cuts from a text of at least N-1 characters
ContextOf(m, text) ==
    LET encoded == Encode(m.tokenizer, text)
    IN SubSeq(encoded, Len(encoded) - m.N + 2, Len(encoded))

\* the seed has enough characters and its context has count 0
UnseenContext(m, seed) ==
    /\ Len(seed) >= m.N - 1
    /\ countOf(m, ContextOf(m, seed), m.N) = 0

\* C18: sample returns 0 for an empty distribution and for one that sums to
\* 0, and otherwise returns 0 or an index whose probability is above 0; so
\* with Smoothing = 0 a generate call (maxLength >= 1) on a context with
\* count 0 samples once, gets 0, and returns the seed with nothing appended.
C18_SampleFallback ==
    /\ sample(<<>>) = {0}
    /\ \A seed \in GenSeeds :
           Len(seed) >= Model.N - 1 =>
               LET ps == probs(Model, seed).probs
               IN \A sampled \in sample(ps) :
                      /\ SumNum(ps) = 0 => sampled = 0
                      /\ sampled # 0 => ps[sampled + 1].num > 0
    /\ (/\ ret.call > 0 /\ ret.call = calls
        /\ ret.length >= 1
        /\ Model.Smoothing = 0
        /\ UnseenContext(Model, ret.seed))
       => /\ ~ret.panicked
          /\ ret.samples = <<0>>
          /\ ret.text = ret.seed

\* C18 witness: on a trained model with Smoothing = 0, the latest call was a
\* generate on a seed whose context has count 0, and it returned the seed
C18_Witness ==
    /\ ret.call > 0 /\ ret.call = calls
    /\ ret.length >= 1
    /\ Model.Smoothing = 0
    /\ trained # EmptyBag
    /\ UnseenContext(Model, ret.seed)
    /\ ret.samples = <<0>>
    /\ ret.text = ret.seed

\* C19: in every step of concurrent calls, the task that mutates the model,
\* writes a field of an existing span, or reads a span's fields (DuringSpan)
\* holds the Brain lock while it does so.  (The map itself is only touched
\* inside getTrainedSpan and setTrainedSpan, which are single steps that
\* take and release the lock.)
C19_LockDiscipline ==
    [][\A t \in Tasks :
          pc'[t] # pc[t] =>
              /\ Model' # Model => mu = t
              /\ (\E i \in DOMAIN heap : heap'[i] # heap[i]) => mu = t
              /\ (pc[t] \in {"o_during", "f_during"} /\ span[t] # Nil) => mu = t]_vars

\* C20: a task inside Brain.generate holds the lock exclusively from before
\* its first probability read until its return, and while a generate call
\* is between its first and its last sampling iteration no step of any task
\* changes the model: no train or forget takes effect in between.
C20_GenerateAtomic ==
    /\ [](\A t \in Tasks : pc[t] \in {"g_start", "g_iter", "g_ret"} => mu = t)
    /\ [][(\E t \in Tasks : pc[t] \in {"g_start", "g_iter"}) => Model' = Model]_vars

\* C20 witness: a generate call has sampled a symbol and is about to sample
\* again, while another task waits at b.mu.Lock() for its train
C20_Witness ==
    \E t, u \in Tasks :
        /\ pc[t] = "g_iter"
        /\ gen[t].left > 0
        /\ Len(gen[t].samples) >= 1
        /\ pc[u] = "o_lock"
        /\ mu = t

\* C21: observeSomeMessages on a channel without a span asks the transport
\* for nothing and changes nothing; when the transport answers with an error
\* the counts, the vocabulary and every span stay as they were; and in both
\* cases a backfill call for another channel does what it would have done.
C21_BackfillBestEffort ==
    \A c \in Channels, answer \in Answers :
        LET r == observeSomeMessages(TheBrain, c, answer)
        IN /\ ~HasSpan(TheBrain, c) => ~r.requested /\ r.b = TheBrain
           /\ r.err =>
                /\ r.b.Model.Counts = Model.Counts
                /\ r.b.Model.tokenizer.vocab = Model.tokenizer.vocab
                /\ r.b.TrainedSpans = TrainedSpans
                /\ r.b.heap = heap
           /\ (r.err \/ ~HasSpan(TheBrain, c)) =>
                \A c2 \in Channels \ {c}, a2 \in Answers :
                    observeSomeMessages(r.b, c2, a2) =
                        observeSomeMessages(TheBrain, c2, a2)

\* C21 witness: the last backfill call for a channel without a span asked
\* for no page, the last one for a channel with a span and trained content
\* met an error, and the span is the one the channel's only delivery made
C21_Witness ==
    \E c, c2 \in Channels :
        /\ ~HasSpan(TheBrain, c)
        /\ fetched[c].called /\ ~fetched[c].requested
        /\ HasSpan(TheBrain, c2)
        /\ fetched[c2].called /\ fetched[c2].requested /\ fetched[c2].err
        /\ \E m \in BagToSet(delivered) :
              /\ delivered = SetToBag({m})
              /\ trained = delivered
              /\ SpanOf(TheBrain, c2) = makeSpan(m)

\* the time of the oldest message of the channel's history
OldestTime(c) ==
    CHOOSE t \in {m.CreatedAt : m \in History(c)} :
        \A m \in History(c) : t <= m.CreatedAt

\* the messages of the channel's history that were older than the span's
\* start when the span was made: those older than every delivered message
OlderThanSpan(c) ==
    {m \in History(c) :
        \A d \in BagToSet(delivered) :
            d.ChannelID = c => m.CreatedAt < d.CreatedAt}

\* a further page of the messages older than the anchor changes nothing
BackfillAtRest(c) == observeSomeMessages(TheBrain, c, "before").b = TheBrain

\* C22, as the result that backfill ends with: for a channel with a span,
\* once the backfill calls answered with pages of the messages older than
\* the anchor change nothing any more, the span starts at the time of the
\* oldest message of the channel's history and every qualifying message that
\* was older than the span has been trained.  (Calls run one at a time here;
\* a covered message is never trained, so what is untrained at rest stays
\* untrained.)
C22_BackfillProgress ==
    \A c \in Channels :
        (HasSpan(TheBrain, c) /\ BackfillAtRest(c)) =>
            /\ SpanOf(TheBrain, c).Start = OldestTime(c)
            /\ \A m \in OlderThanSpan(c) : shouldObserve(m) => BagIn(m, trained)

\* the process has just started from the file that Save wrote from saved.b
JustLoaded ==
    /\ Running
    /\ saved.set
    /\ saved.calls = calls
    /\ file = <<gobEncode(saved.b)>>

\* C23: a Brain loaded from the file that Save wrote has the counts, N,
\* Smoothing, vocabulary, special tokens (id 0 decodes to the end-of-text
\* marker, VocabSize() is as before) and per-channel spans of the saved
\* Brain, and train, forget and Encode give on it what they give on the
\* saved one.
C23_SaveLoadRoundTrip ==
    JustLoaded =>
        /\ Model.Counts = saved.b.Model.Counts
        /\ Model.N = saved.b.Model.N
        /\ Model.Smoothing = saved.b.Model.Smoothing
        /\ Model.tokenizer.vocab = saved.b.Model.tokenizer.vocab
        /\ Model.tokenizer.special_tokens = saved.b.Model.tokenizer.special_tokens
        /\ DecodeToken(Model.tokenizer, 0) = EndOfText
        /\ VocabSize(Model.tokenizer) = VocabSize(saved.b.Model.tokenizer)
        /\ \A c \in Channels : SameSpan(TheBrain, saved.b, c)
        /\ \A T \in Texts :
              /\ Encode(Model.tokenizer, T) = Encode(saved.b.Model.tokenizer, T)
              /\ train(Model, T).Counts = train(saved.b.Model, T).Counts
              /\ forget(Model, T).Counts = forget(saved.b.Model, T).Counts

\* C24: observe of a message by a bot or with empty content, whose time is
\* outside its channel's span or whose channel has no span, leaves the counts
\* and the vocabulary as they were and gives the channel a span made from
\* the message, or moves the span's start or end (and the boundary id) to
\* the message.
C24_NonQualifyingMovesSpan ==
    \A m \in Messages :
        (~shouldObserve(m) /\ ~Covered(TheBrain, m)) =>
            LET b1 == observe(TheBrain, m)
                old == SpanOf(TheBrain, m.ChannelID)
                new == SpanOf(b1, m.ChannelID)
                t == m.CreatedAt
            IN /\ b1.Model = Model
               /\ HasSpan(b1, m.ChannelID)
               /\ Covered(b1, m)
               /\ IF ~HasSpan(TheBrain, m.ChannelID)
                  THEN new = makeSpan(m)
                  ELSE /\ new.Start = Min(old.Start, t)
                       /\ new.End = Max(old.End, t)
                       /\ t < old.Start => new.StartID = m.ID
                       /\ t > old.End => new.EndID = m.ID

\* C24 witness: a channel's span was made from a message with empty content
\* and extended by a bot's message, nothing was trained, and a user's
\* message lies inside the span
C24_Witness ==
    \E m1, m2 \in BagToSet(delivered) :
        /\ Len(m1.Content) = 0
        /\ m2.Bot
        /\ m1.ChannelID = m2.ChannelID
        /\ HasSpan(TheBrain, m1.ChannelID)
        /\ SpanOf(TheBrain, m1.ChannelID).StartID = m1.ID
        /\ SpanOf(TheBrain, m1.ChannelID).EndID = m2.ID
        /\ SpanOf(TheBrain, m1.ChannelID).End - SpanOf(TheBrain, m1.ChannelID).Start >= 2
        /\ trained = EmptyBag
        /\ Model.Counts = <<>>

\* C25: when one message in each of two channels was passed to observe and
\* all calls have returned, under every interleaving the counts are those of
\* training the two contents in either order (so both orders agree, also for
\* content with a multi-byte character), and each channel's span is the one
\* made from that channel's message.
C25_CrossChannelOrder ==
    \A m1, m2 \in CrossMessages :
        (/\ m1.ChannelID # m2.ChannelID
         /\ delivered = SetToBag({m1, m2})
         /\ Running)
        => /\ Model.Counts = train(train(NewBrain.Model, m1.Content), m2.Content).Counts
           /\ Model.Counts = train(train(NewBrain.Model, m2.Content), m1.Content).Counts
           /\ HasSpan(TheBrain, m1.ChannelID)
           /\ SpanOf(TheBrain, m1.ChannelID) = makeSpan(m1)

\* the last k symbols of a context
Suffix(ctx, k) == SubSeq(ctx, Len(ctx) - k + 1, Len(ctx))

\* the count of a context's own key
CountOfKey(m, ctx) == CountAt(m.Counts, Decode(m.tokenizer, ctx))

\* the lengths of the proper non-empty suffixes of ctx that have been counted
CountedSuffixes(m, ctx) ==
    {k \in 1..(Len(ctx) - 1) : CountOfKey(m, Suffix(ctx, k)) > 0}

\* C26: when the last N-1 symbols of a text have count 0 and a proper
\* non-empty suffix of them has a count above 0, probs takes the denominator
\* and the numerators from the longest such suffix, and the vector it returns
\* is not all zero.
C26_ProbsBacksOff ==
    \A T \in Texts \cup TrainTexts :
        LET ctx == ContextOf(Model, T)
            ks == CountedSuffixes(Model, ctx)
        IN (/\ Len(T) >= Model.N - 1
            /\ CountOfKey(Model, ctx) = 0
            /\ ks # {})
           => LET k == CHOOSE k \in ks : \A j \in ks : j <= k
                  sfx == Suffix(ctx, k)
                  p == probs(Model, T)
              IN /\ ~p.panicked
                 /\ \A i \in 1..Len(p.probs) :
                       /\ p.probs[i].den = CountOfKey(Model, sfx)
                              + VocabSize(Model.tokenizer) * Model.Smoothing
                       /\ p.probs[i].num = CountOfKey(Model, Append(sfx, i - 1))
                              + Model.Smoothing
                 /\ \E i \in 1..Len(p.probs) : p.probs[i].num > 0

\* contexts to look up: the windows of the encoded texts followed by
\* end-of-text, and each of them after one more symbol (a valid id, or the
\* value Encode gives an unknown character)
Contexts(m) ==
    LET windows == UNION { LET tokens == Append(Encode(m.tokenizer, T), 0)
                           IN {SubSeq(tokens, i, j) :
                                   i \in 1..Len(tokens), j \in 1..Len(tokens)}
                           : T \in TrainTexts }
    IN windows \cup {<<tok>> \o w : tok \in {-1, 0, 1}, w \in windows}

\* minContextLen, from 0 to beyond the longest context
MinLens == 0..4

\* the suffix lengths at which the reference back-off may stop: the suffix
\* has a count above 0, or is no longer than nMin
StopLengths(m, ctx, nMin) ==
    {k \in 0..Len(ctx) : k <= nMin \/ CountOfKey(m, Suffix(ctx, k)) > 0}

\* the reference back-off: the count of the longest suffix at which it may
\* stop, 0 for the empty one
BackoffCount(m, ctx, nMin) ==
    LET k == CHOOSE k \in StopLengths(m, ctx, nMin) :
                 \A j \in StopLengths(m, ctx, nMin) : j <= k
    IN IF k = 0 THEN 0 ELSE CountOfKey(m, Suffix(ctx, k))

\* C27: for every context and every minContextLen, countOf is the reference
\* back-off: the count of the longest suffix of the context (symbols are
\* dropped from the left only) whose count is above 0 or whose length is at
\* most minContextLen; 0 for the empty context; and the context's own count,
\* with no symbol dropped, once its length is at most minContextLen.
C27_CountOfBackoff ==
    \A ctx \in Contexts(Model), nMin \in MinLens :
        /\ countOf(Model, ctx, nMin) = BackoffCount(Model, ctx, nMin)
        /\ (Len(ctx) <= nMin /\ Len(ctx) > 0) =>
               countOf(Model, ctx, nMin) = CountOfKey(Model, ctx)
        /\ countOf(Model, <<>>, nMin) = 0

\* C27 witness: in a trained model, one context with count 0 is looked up
\* through a counted shorter suffix, and the same context gives 0 when
\* minContextLen does not let a symbol go
C27_Witness ==
    \E ctx \in Contexts(Model) :
        /\ Len(ctx) = 3
        /\ CountOfKey(Model, ctx) = 0
        /\ CountOfKey(Model, Suffix(ctx, 2)) = 0
        /\ CountOfKey(Model, Suffix(ctx, 1)) > 0
        /\ countOf(Model, ctx, 0) = CountOfKey(Model, Suffix(ctx, 1))
        /\ countOf(Model, ctx, 2) = 0
        /\ countOf(Model, ctx, 3) = 0

\* every entry of the vector is 0
AllZero(ps) == \A i \in 1..Len(ps) : ps[i].num = 0

\* C28: in every model state reached by train and forget calls, and for
\* every text of at least N-1 symbols, probs returns the all-zero vector only
\* if Smoothing is 0 and the context and each of its one-symbol continuations
\* have count 0; so when a continuation has a count above 0, the context has
\* one too and the vector is not all zero.
C28_ZeroOnlyIfUnseen ==
    \A T \in Texts \cup TrainTexts :
        Len(Encode(Model.tokenizer, T)) >= Model.N - 1 =>
            LET ctx == ContextOf(Model, T)
                p == probs(Model, T)
                ids == 0..(VocabSize(Model.tokenizer) - 1)
            IN /\ ~p.panicked
               /\ AllZero(p.probs) =>
                     /\ Model.Smoothing = 0
                     /\ CountOfKey(Model, ctx) = 0
                     /\ \A i \in ids : CountOfKey(Model, Append(ctx, i)) = 0
               /\ (\E i \in ids : CountOfKey(Model, Append(ctx, i)) > 0) =>
                     /\ CountOfKey(Model, ctx) > 0
                     /\ ~AllZero(p.probs)

\* spans with start <= end, their ids those of messages at the boundaries
OrderedSpans ==
    {[Start |-> p[1].CreatedAt, End |-> p[2].CreatedAt,
      StartID |-> p[1].ID, EndID |-> p[2].ID] :
        p \in {q \in PageMessages \X PageMessages : q[1].CreatedAt <= q[2].CreatedAt}}

\* the spans in the heap
HeapSpans == {heap[i] : i \in 1..Len(heap)}

Min2(x, y) == IF x < y THEN x ELSE y
Max2(x, y) == IF x > y THEN x ELSE y

\* the times of the messages fed so far
FedTimes == {m.CreatedAt : m \in BagToSet(delivered)}

\* every page has been merged, and there was at least one
AllMerged == pc[1] = "idle" /\ Len(heap) = 3

\* C29: for all spans a and b with start <= end, a.Union(b) has start =
\* min(a.start, b.start) and end = max(a.end, b.end); and once every page of
\* messages has been merged with Union, the merged span has the bounds of the
\* span that was extended with ExtendSpan message by message, which are the
\* least and the greatest time of the messages, whatever their order.
C29_UnionEncloses ==
    /\ \A a \in OrderedSpans \cup HeapSpans, b \in OrderedSpans \cup HeapSpans :
           /\ Union(a, b).Start = Min2(a.Start, b.Start)
           /\ Union(a, b).End = Max2(a.End, b.End)
    /\ AllMerged =>
           /\ heap[3].Start = heap[1].Start
           /\ heap[3].End = heap[1].End
           /\ \A t \in FedTimes : heap[3].Start <= t /\ t <= heap[3].End
           /\ heap[3].Start \in FedTimes /\ heap[3].End \in FedTimes

\* three messages in three pages, the last page strictly inside the merged
\* span, which has the bounds of the span extended message by message
C29_Witness ==
    /\ AllMerged
    /\ BagCardinality(delivered) = 3
    /\ heap[3].Start < heap[2].Start /\ heap[2].End < heap[3].End
    /\ heap[3].Start = heap[1].Start /\ heap[3].End = heap[1].End
    /\ \E a \in HeapSpans, b \in HeapSpans :
           a.End < b.End /\ b.Start < a.Start /\ Union(a, b) = b

\* no call is in progress
AllIdle == \A t \in Tasks : pc[t] = "idle"

\* id names a message passed to observe in the channel, created at time t
ObservedAt(channelID, id, t) ==
    \E m \in BagToSet(delivered) :
        m.ChannelID = channelID /\ m.ID = id /\ m.CreatedAt = t

\* C30: whenever no call is in progress, also after observe calls that ran
\* concurrently on one channel, each channel's span has as StartID the id of
\* an observed message created at the span's Start, and as EndID the id of an
\* observed message created at the span's End.
C30_BoundaryIDsMatch ==
    AllIdle =>
        \A c \in Channels :
            HasSpan(TheBrain, c) =>
                LET ts == SpanOf(TheBrain, c)
                IN /\ ObservedAt(c, ts.StartID, ts.Start)
                   /\ ObservedAt(c, ts.EndID, ts.End)

\* the Brain objects made for a guild
BrainsOf(g) == {i \in 1..Len(brains) : brains[i].guild = g}

\* the observeChannels goroutines started for a guild
LoopsOf(g) == {i \in 1..Len(loops) : loops[i].guild = g}

\* the Brain object has been trained or has a span
Touched(i) ==
    \/ brains[i].b.Model.Counts # NewBrain.Model.Counts
    \/ \E c \in Channels : HasSpan(brains[i].b, c)

\* C31: for every guild and every interleaving of the handlers' and the
\* backfill loop's calls of retrieve_guild_brain, at most one Brain is made
\* and at most one observeChannels loop is started for the guild, every caller
\* holds the Brain the map guilds names, and no Brain that was trained is
\* missing from the map.
C31_OneBrainPerGuild ==
    /\ \A g \in Guilds :
           /\ Cardinality(BrainsOf(g)) <= 1
           /\ Cardinality(LoopsOf(g)) <= 1
    /\ \A t \in Tasks :
           handler[t].schizo # Nil => handler[t].schizo = guilds[GuildOf(obs[t])]
    /\ \A i \in 1..Len(loops) :
           loops[i].brain # Nil => loops[i].brain = guilds[loops[i].guild]
    /\ \A i \in 1..Len(brains) :
           Touched(i) => guilds[brains[i].guild] = i

====
